---- MODULE Spec2Model ----
(***************************************************************************)
(* State-machine model of the MQTT broker interop plugin: the metrics      *)
(* aggregator (MqttMetrics), the topic-to-table mapper, the table registry *)
(* with its subscribe/unsubscribe lifecycle, the $SYS metrics table        *)
(* upserts, and the $SYS periodic publisher start/stop logic.              *)
(*                                                                         *)
(* Strings are modelled as sequences of one-character strings so that the  *)
(* string operations of the code (split, startsWith, includes, substring,  *)
(* toLowerCase, replace) are computed character by character.              *)
(*                                                                         *)
(* JavaScript runs every event handler to completion on one thread, so a   *)
(* handler is one atomic action; concurrency is the arbitrary interleaving *)
(* of handlers, deferred timer callbacks and storage-engine completions.   *)
(***************************************************************************)
EXTENDS Integers, Sequences, FiniteSets

(***************************************************************************)
(* Bounds of the model                                                     *)
(***************************************************************************)
\* cap on clients.connected and clients.disconnected
MaxClients == 3
\* cap on the absolute value of subscriptions.count / retained.count and on
\* a registry entry's subscriptionCount
MaxCount == 1
\* longest subscriptions[] / unsubscriptions[] array one event carries
MaxBatch == 1
\* cap on deferred mqtt_topics read-modify-write tasks pending at one time
MaxTasks == 1
\* cap on sysSubscriberCount
MaxSysSubscribers == 6
\* number of MQTT client identifiers
MaxSessions == 2
\* cap on the puts on the $SYS metrics table in flight at one time
MaxPending == 3
\* cap on clients.connected and clients.disconnected in the runs with the
\* storage engine in the loop
MaxWriters == 2
\* last minute of the clock
MaxTime == 15
\* cap on the length of one load-sample sequence
MaxSamples == 3
\* cap on clients.connected and clients.disconnected in the runs of the
\* load sampler
MaxLoadClients == 1
\* cap on the put failures counted (caught, and uncaught)
MaxFailures == 1
\* cap on subscriptions.count and on a registry entry's subscriptionCount in
\* the runs driven by client sessions
MaxLive == 2
\* longest topic handed to the topic-to-table mapper
MaxTopicLen == 3
\* most mqtt_topics updates in flight at once, and most subscriptions, in
\* the runs of the deferred updates
MaxQueued == 2

(***************************************************************************)
(* String literals of the program                                          *)
(***************************************************************************)
SYS_PREFIX == <<"$", "S", "Y", "S", "/">>
SYS_ALL == <<"$", "S", "Y", "S", "/", "#">>
DEFAULT_TABLE == <<"m", "q", "t", "t", "_", "m", "e", "s", "s", "a", "g", "e", "s">>
TABLE_PREFIX == <<"m", "q", "t", "t", "_">>
MQTT_TOPICS == <<"m", "q", "t", "t", "_", "t", "o", "p", "i", "c", "s">>
MQTT_SYS_METRICS == <<"m", "q", "t", "t", "_", "s", "y", "s", "_", "m", "e", "t", "r", "i", "c", "s">>
TOPIC_CLIENTS_CONNECTED == <<"$", "S", "Y", "S", "/", "b", "r", "o", "k", "e", "r", "/", "c", "l", "i", "e", "n", "t", "s", "/", "c", "o", "n", "n", "e", "c", "t", "e", "d">>
TOPIC_CLIENTS_TOTAL == <<"$", "S", "Y", "S", "/", "b", "r", "o", "k", "e", "r", "/", "c", "l", "i", "e", "n", "t", "s", "/", "t", "o", "t", "a", "l">>
TOPIC_CLIENTS_MAXIMUM == <<"$", "S", "Y", "S", "/", "b", "r", "o", "k", "e", "r", "/", "c", "l", "i", "e", "n", "t", "s", "/", "m", "a", "x", "i", "m", "u", "m">>
TOPIC_CLIENTS_DISCONNECTED == <<"$", "S", "Y", "S", "/", "b", "r", "o", "k", "e", "r", "/", "c", "l", "i", "e", "n", "t", "s", "/", "d", "i", "s", "c", "o", "n", "n", "e", "c", "t", "e", "d">>
TOPIC_SUBSCRIPTIONS_COUNT == <<"$", "S", "Y", "S", "/", "b", "r", "o", "k", "e", "r", "/", "s", "u", "b", "s", "c", "r", "i", "p", "t", "i", "o", "n", "s", "/", "c", "o", "u", "n", "t">>
TOPIC_RETAINED_COUNT == <<"$", "S", "Y", "S", "/", "b", "r", "o", "k", "e", "r", "/", "r", "e", "t", "a", "i", "n", "e", "d", " ", "m", "e", "s", "s", "a", "g", "e", "s", "/", "c", "o", "u", "n", "t">>

(***************************************************************************)
(* Topics the broker delivers in the model.  The empty sequence stands for *)
(* every falsy topic ('' as well as null/undefined): the handlers only     *)
(* test it with !topic.                                                    *)
(***************************************************************************)
TopicEmpty == <<>>
\* concrete hierarchical topic, upper-case first segment: maps to mqtt_a
TopicConcrete == <<"A", "/", "x">>
\* multi-level wildcard under the same first segment
TopicWildcard == <<"A", "/", "#">>
\* bare multi-level wildcard: its first segment is the marker itself
TopicHash == <<"#">>
\* single-level wildcard in first position
TopicPlus == <<"+", "/", "x">>
\* second concrete topic under the same first segment
TopicConcreteB == <<"A", "/", "y">>
\* single-segment topic (no '/'): maps to the default table
TopicSingle == <<"x">>
TopicSysAll == <<"$", "S", "Y", "S", "/", "#">>
TopicSysOne == <<"$", "S", "Y", "S", "/", "v">>

Topics == {TopicEmpty, TopicConcrete, TopicWildcard, TopicHash, TopicSysAll}

(***************************************************************************)
(* String helpers                                                          *)
(***************************************************************************)
LowerLetters == {"a", "b", "c", "d", "e", "f", "g", "h", "i", "j", "k", "l", "m", "n", "o", "p", "q", "r", "s", "t", "u", "v", "w", "x", "y", "z"}
Digits == {"0", "1", "2", "3", "4", "5", "6", "7", "8", "9"}

\* String.prototype.toLowerCase on one character
ToLowerChar(c) ==
  CASE c = "A" -> "a" [] c = "B" -> "b" [] c = "S" -> "s" [] c = "Y" -> "y"
    [] c = "X" -> "x" [] OTHER -> c

\* topic.includes(ch)
Includes(s, ch) == \E i \in 1..Len(s) : s[i] = ch

\* topic.startsWith(p)
StartsWith(s, p) == Len(s) >= Len(p) /\ SubSeq(s, 1, Len(p)) = p

\* topic.split('/')[0]: the text before the first '/', the whole string if none
FirstSegment(s) ==
  IF Includes(s, "/")
  THEN LET i == CHOOSE k \in 1..Len(s) : s[k] = "/" /\ \A j \in 1..(k - 1) : s[j] # "/"
       IN SubSeq(s, 1, i - 1)
  ELSE s

\* s.toLowerCase().replace(/[^a-z0-9_]/g, '_')
Sanitize(s) ==
  [i \in 1..Len(s) |->
     LET c == ToLowerChar(s[i])
     IN IF c \in LowerLetters \cup Digits \cup {"_"} THEN c ELSE "_"]

DigitChar(d) ==
  CASE d = 0 -> "0" [] d = 1 -> "1" [] d = 2 -> "2" [] d = 3 -> "3" [] d = 4 -> "4"
    [] d = 5 -> "5" [] d = 6 -> "6" [] d = 7 -> "7" [] d = 8 -> "8" [] d = 9 -> "9"

RECURSIVE NatToString(_)
NatToString(n) ==
  IF n < 10 THEN <<DigitChar(n)>> ELSE NatToString(n \div 10) \o <<DigitChar(n % 10)>>

\* String(value) for an integer value
StringOf(n) == IF n < 0 THEN <<"-">> \o NatToString(0 - n) ELSE NatToString(n)

\* getTableNameForTopic without the empty-first-segment test
getTableNameForTopic_KeepsEmptySegment(topic) ==
  IF topic = <<>> THEN DEFAULT_TABLE
  ELSE LET firstSegment == FirstSegment(topic)
       IN IF firstSegment = topic /\ ~Includes(topic, "/")
          THEN DEFAULT_TABLE
          ELSE TABLE_PREFIX \o Sanitize(firstSegment)

\* getTableNameForTopic
getTableNameForTopic(topic) ==
  IF topic = <<>> THEN DEFAULT_TABLE
  ELSE LET firstSegment == FirstSegment(topic)
       IN IF firstSegment = <<>> \/ (firstSegment = topic /\ ~Includes(topic, "/"))
          THEN DEFAULT_TABLE
          ELSE TABLE_PREFIX \o Sanitize(firstSegment)

\* $SYS test that never matches
IsSysTopic_Never(topic) == FALSE

\* topic.startsWith('$SYS/') || topic === '$SYS/#'
IsSysTopic(topic) == StartsWith(topic, SYS_PREFIX) \/ topic = SYS_ALL

\* topic.includes('#') || topic.includes('+')
IsWildcard(topic) == Includes(topic, "#") \/ Includes(topic, "+")

(***************************************************************************)
(* State                                                                   *)
(***************************************************************************)
VARIABLES
  clients,            \* metrics.clients: connected, disconnected, maximum, total
  subscriptionsCount, \* metrics.subscriptions.count
  retainedCount,      \* metrics.retained.count
  tableRegistry,      \* Map tableName -> [subscriptionCount, hasRetained]
  tables,             \* names of the tables that exist in the storage engine
  creating,           \* table names with a create_table operation in flight
  sysMetricsTable,    \* TRUE when the $SYS metrics table reference is set
  sysStore,           \* rows of the $SYS metrics table: id -> [topic, value]
  mqttTopics,         \* rows of mqtt_topics: topic -> [subscription_count, retain]
  tasks,              \* deferred (setTimeout) read-modify-write tasks on mqtt_topics
  sysSubscriberCount, \* $SYS publisher: number of $SYS subscribers
  publishInterval,    \* $SYS publisher: TRUE when the interval handle is set
  activeTimers,       \* number of live setInterval timers of the publisher
  sessions,           \* broker: clientId -> [online, clean, topics] of its session
  retainedStore,      \* broker: topics that currently have a retained message
  pendingWrites,      \* storage engine: puts on the $SYS metrics table in flight
  caught,             \* number of put failures caught and logged by upsertSysMetric
  uncaught,           \* number of put rejections that no handler caught
  now,                \* the clock read by Date.now(), in minutes
  traffic,            \* metrics.messages and metrics.bytes: received/sent counters
  heap,               \* metrics.heap: current, maximum
  loadSamples,        \* metrics._loadSamples: metric -> sequence of [time, value]
  load,               \* metrics.load: metric -> rate per window
  monitoring,         \* setupMqttMonitoring: the server it was given and its result
  lastPuts,           \* history: the puts the step taken last issued
  lastEvent,          \* history: the step taken last, [kind, topics]
  before              \* history: the values the step started from

metricVars == <<clients, subscriptionsCount, retainedCount>>
registryVars == <<tableRegistry, tables, creating>>
storeVars == <<sysMetricsTable, sysStore>>
topicsVars == <<mqttTopics, tasks>>
publisherVars == <<sysSubscriberCount, publishInterval, activeTimers, sessions, retainedStore>>
writeVars == <<pendingWrites, caught, uncaught, lastPuts>>
loadVars == <<now, traffic, heap, loadSamples, load>>
vars == <<clients, subscriptionsCount, retainedCount, tableRegistry, tables, creating,
          sysMetricsTable, sysStore, mqttTopics, tasks,
          sysSubscriberCount, publishInterval, activeTimers, sessions, retainedStore,
          pendingWrites, caught, uncaught, now, traffic, heap, loadSamples, load,
          monitoring, lastPuts, lastEvent, before>>

\* the empty Map / the empty table
EmptyMap == [k \in {} |-> 0]

\* Map.set / table put keyed by k
MapSet(m, k, v) == [x \in (DOMAIN m) \cup {k} |-> IF x = k THEN v ELSE m[x]]

\* Map.delete / table delete
MapDelete(m, k) == [x \in (DOMAIN m) \ {k} |-> m[x]]

(***************************************************************************)
(* State after module load and handleApplication: all counters zero, the   *)
(* registry empty, no publisher timer.  The storage engine may or may not  *)
(* hold the mqtt_topics and mqtt_sys_metrics tables; handleApplication     *)
(* sets the $SYS metrics table reference exactly when the latter exists.   *)
(***************************************************************************)
\* the seven keys of metrics._loadSamples and metrics.load
LoadMetrics ==
  {"connections", "messagesReceived", "messagesSent", "bytesReceived", "bytesSent",
   "publishReceived", "publishSent"}

\* a rate of 0, as the constructor sets every load average
ZeroRate == [delta |-> 0, minutes |-> 1]

\* what setupMqttMonitoring may be handed as server: null, a server without
\* mqtt, a server whose mqtt has no events, a server with mqtt.events
Servers == {"null", "no mqtt", "no events", "events"}

\* setupMqttMonitoring without the optional chaining on server
setupMqttMonitoring_Unguarded(server) ==
  IF server = "null" THEN "threw" ELSE "installed"

\* setupMqttMonitoring: returns before installing any handler when
\* server?.mqtt?.events is missing, installs the handlers otherwise
setupMqttMonitoring(server) ==
  IF server # "events" THEN "skipped" ELSE "installed"

InitModule ==
  /\ clients = [connected |-> 0, disconnected |-> 0, maximum |-> 0, total |-> 0]
  /\ subscriptionsCount = 0
  /\ retainedCount = 0
  /\ tableRegistry = EmptyMap
  /\ tables \in SUBSET {MQTT_TOPICS, MQTT_SYS_METRICS}
  /\ creating = {}
  /\ sysMetricsTable = (MQTT_SYS_METRICS \in tables)
  /\ sysStore = EmptyMap
  /\ mqttTopics = EmptyMap
  /\ tasks = <<>>
  /\ sysSubscriberCount = 0
  /\ publishInterval = FALSE
  /\ activeTimers = 0
  /\ sessions = EmptyMap
  /\ retainedStore = {}
  /\ pendingWrites = <<>>
  /\ caught = 0
  /\ uncaught = 0
  /\ now = 0
  /\ traffic = [received |-> 0, sent |-> 0, publishReceived |-> 0, publishSent |-> 0,
                 bytesReceived |-> 0, bytesSent |-> 0]
  /\ heap = [current |-> 0, maximum |-> 0]
  /\ loadSamples = [m \in LoadMetrics |-> <<>>]
  /\ load = [m \in LoadMetrics |->
               [oneMin |-> ZeroRate, fiveMin |-> ZeroRate, fifteenMin |-> ZeroRate]]
  /\ lastPuts = [issued |-> <<>>, threw |-> {}]
  /\ lastEvent = [kind |-> "init", topics |-> <<>>]
  /\ before = [reg |-> EmptyMap, count |-> 0, tables |-> tables, creating |-> {},
                connected |-> 0, sysSubscriberCount |-> 0, activeTimers |-> 0,
                sessions |-> EmptyMap, clients |-> clients, retained |-> 0,
                now |-> 0, load |-> load, rows |-> EmptyMap]

\* the event handlers are installed: the server handed to
\* setupMqttMonitoring has mqtt.events
Init ==
  /\ InitModule
  /\ monitoring = [server |-> "events", result |-> setupMqttMonitoring("events")]

\* The history variables are written by every step and read by none: they
\* record which step led to the current state and what it started from.
Snapshot ==
  [reg |-> tableRegistry, count |-> subscriptionsCount, tables |-> tables,
   creating |-> creating, connected |-> clients.connected,
   sysSubscriberCount |-> sysSubscriberCount, activeTimers |-> activeTimers,
   sessions |-> sessions, clients |-> clients, retained |-> retainedCount,
   now |-> now, load |-> load, rows |-> mqttTopics]

Record(kind, topics) ==
  /\ lastEvent' = [kind |-> kind, topics |-> topics]
  /\ before' = Snapshot

(***************************************************************************)
(* $SYS metrics table upsert                                               *)
(***************************************************************************)
\* upsertSysMetric without the check of the table reference
upsertSysMetric_NoTableCheck(store, hasTable, topic, value) ==
  LET relativePath == IF StartsWith(topic, SYS_PREFIX)
                      THEN SubSeq(topic, 6, Len(topic)) ELSE topic
  IN MapSet(store, relativePath, [topic |-> topic, value |-> StringOf(value)])

\* upsertSysMetric: no-op while the table reference is unset; otherwise put
\* {id: topic without the '$SYS/' prefix, topic, value: String(value)}
upsertSysMetric(store, hasTable, topic, value) ==
  IF ~hasTable THEN store
  ELSE LET relativePath == IF StartsWith(topic, SYS_PREFIX)
                           THEN SubSeq(topic, 6, Len(topic)) ELSE topic
       IN MapSet(store, relativePath, [topic |-> topic, value |-> StringOf(value)])

(***************************************************************************)
(* MqttMetrics event methods.  Each takes and returns the pair of the      *)
(* counter it updates and the $SYS metrics table rows.                     *)
(***************************************************************************)
\* onConnect that assigns clients.maximum without comparing
onConnect_MaximumTracksConnected(c, store, hasTable) ==
  LET connected == c.connected + 1
      total == connected + c.disconnected
      s1 == upsertSysMetric(store, hasTable, TOPIC_CLIENTS_CONNECTED, connected)
      s2 == upsertSysMetric(s1, hasTable, TOPIC_CLIENTS_TOTAL, total)
      s3 == upsertSysMetric(s2, hasTable, TOPIC_CLIENTS_MAXIMUM, connected)
  IN [clients |-> [connected |-> connected, disconnected |-> c.disconnected,
                   maximum |-> connected, total |-> total],
      store |-> s3]

\* MqttMetrics.onConnect
onConnect(c, store, hasTable) ==
  LET connected == c.connected + 1
      total == connected + c.disconnected
      maximum == IF connected > c.maximum THEN connected ELSE c.maximum
      s1 == upsertSysMetric(store, hasTable, TOPIC_CLIENTS_CONNECTED, connected)
      s2 == upsertSysMetric(s1, hasTable, TOPIC_CLIENTS_TOTAL, total)
      s3 == upsertSysMetric(s2, hasTable, TOPIC_CLIENTS_MAXIMUM, maximum)
  IN [clients |-> [connected |-> connected, disconnected |-> c.disconnected,
                   maximum |-> maximum, total |-> total],
      store |-> s3]

\* onDisconnect with the decrement left unguarded
DisconnectDecrement_Unclamped(connected) == connected - 1

\* clients.connected after the guarded decrement of onDisconnect
DisconnectDecrement(connected) == IF connected > 0 THEN connected - 1 ELSE connected

\* onDisconnect that forgets to recompute clients.total
onDisconnect_StaleTotal(c, persistent, store, hasTable) ==
  LET connected == DisconnectDecrement(c.connected)
      disconnected == IF persistent THEN c.disconnected + 1 ELSE c.disconnected
      s1 == upsertSysMetric(store, hasTable, TOPIC_CLIENTS_CONNECTED, connected)
      s2 == upsertSysMetric(s1, hasTable, TOPIC_CLIENTS_DISCONNECTED, disconnected)
  IN [clients |-> [connected |-> connected, disconnected |-> disconnected,
                   maximum |-> c.maximum, total |-> c.total],
      store |-> s2]

\* MqttMetrics.onDisconnect
onDisconnect(c, persistent, store, hasTable) ==
  LET connected == DisconnectDecrement(c.connected)
      disconnected == IF persistent THEN c.disconnected + 1 ELSE c.disconnected
      total == connected + disconnected
      s1 == upsertSysMetric(store, hasTable, TOPIC_CLIENTS_CONNECTED, connected)
      s2 == upsertSysMetric(s1, hasTable, TOPIC_CLIENTS_DISCONNECTED, disconnected)
  IN [clients |-> [connected |-> connected, disconnected |-> disconnected,
                   maximum |-> c.maximum, total |-> total],
      store |-> s2]

\* onSubscribe whose increment is lost
onSubscribe_LostUpdate(count, store, hasTable) ==
  [count |-> count,
   store |-> upsertSysMetric(store, hasTable, TOPIC_SUBSCRIPTIONS_COUNT, count)]

\* MqttMetrics.onSubscribe
onSubscribe(count, store, hasTable) ==
  [count |-> count + 1,
   store |-> upsertSysMetric(store, hasTable, TOPIC_SUBSCRIPTIONS_COUNT, count + 1)]

\* MqttMetrics.onUnsubscribe
onUnsubscribe(count, store, hasTable) ==
  [count |-> count - 1,
   store |-> upsertSysMetric(store, hasTable, TOPIC_SUBSCRIPTIONS_COUNT, count - 1)]

\* MqttMetrics.onRetainedMessageAdded
onRetainedMessageAdded(count, store, hasTable) ==
  [count |-> count + 1,
   store |-> upsertSysMetric(store, hasTable, TOPIC_RETAINED_COUNT, count + 1)]

\* MqttMetrics.onRetainedMessageRemoved
onRetainedMessageRemoved(count, store, hasTable) ==
  [count |-> count - 1,
   store |-> upsertSysMetric(store, hasTable, TOPIC_RETAINED_COUNT, count - 1)]

(***************************************************************************)
(* Event router: connection and retained-message events                    *)
(***************************************************************************)
\* 'connected' handler: persistent = !(session?.clean ?? true)
Connected ==
  \E clean \in BOOLEAN :
    LET r == onConnect(clients, sysStore, sysMetricsTable)
    IN /\ clients.connected < MaxClients
       /\ clients' = r.clients
       /\ sysStore' = r.store
       /\ Record("connected", <<>>)
       /\ UNCHANGED <<subscriptionsCount, retainedCount, registryVars, sysMetricsTable,
                      topicsVars, publisherVars,
                      writeVars, loadVars, monitoring>>

\* 'disconnected' handler: a missing session (or one without sessionId) is
\* ignored; persistent = session.sessionWasPresent || false
Disconnected ==
  \E hasSession \in BOOLEAN, sessionWasPresent \in BOOLEAN :
    IF ~hasSession
    THEN /\ Record("disconnected without session", <<>>)
         /\ UNCHANGED <<metricVars, registryVars, storeVars, topicsVars, publisherVars,
                      writeVars, loadVars, monitoring>>
    ELSE LET r == onDisconnect(clients, sessionWasPresent, sysStore, sysMetricsTable)
         IN /\ r.clients.disconnected <= MaxClients
            /\ clients' = r.clients
            /\ sysStore' = r.store
            /\ Record("disconnected", <<>>)
            /\ UNCHANGED <<subscriptionsCount, retainedCount, registryVars, sysMetricsTable,
                           topicsVars, publisherVars,
                      writeVars, loadVars, monitoring>>

\* topics that retained messages are published to
RetainedTopics == {TopicConcrete, TopicConcreteB}

\* 'retained-added' handler, for the retained message the broker has stored
\* under packet.topic
RetainedAdded ==
  \E topic \in RetainedTopics :
    LET r == onRetainedMessageAdded(retainedCount, sysStore, sysMetricsTable)
    IN /\ r.count <= MaxCount
       /\ retainedCount' = r.count
       /\ sysStore' = r.store
       /\ retainedStore' = retainedStore \cup {topic}
       /\ Record("retained-added", <<topic>>)
       /\ UNCHANGED <<clients, subscriptionsCount, registryVars, sysMetricsTable,
                      topicsVars, sysSubscriberCount, publishInterval, activeTimers,
                      sessions,
                      writeVars, loadVars, monitoring>>

\* 'retained-removed' handler, for the retained message the broker has
\* cleared under topic
RetainedRemoved ==
  \E topic \in RetainedTopics :
    LET r == onRetainedMessageRemoved(retainedCount, sysStore, sysMetricsTable)
    IN /\ r.count >= 0 - MaxCount
       /\ retainedCount' = r.count
       /\ sysStore' = r.store
       /\ retainedStore' = retainedStore \ {topic}
       /\ Record("retained-removed", <<topic>>)
       /\ UNCHANGED <<clients, subscriptionsCount, registryVars, sysMetricsTable,
                      topicsVars, sysSubscriberCount, publishInterval, activeTimers,
                      sessions,
                      writeVars, loadVars, monitoring>>

NextMetrics == Connected \/ Disconnected \/ RetainedAdded \/ RetainedRemoved

\* connection and retained-message events only
SpecMetrics == Init /\ [][NextMetrics]_vars

(***************************************************************************)
(* Table registry and storage-unit lifecycle                               *)
(***************************************************************************)
\* The part of the state one subscribe/unsubscribe handler run reads and
\* writes, threaded through the forEach over the event's array.
HandlerState ==
  [count |-> subscriptionsCount, store |-> sysStore, reg |-> tableRegistry,
   creating |-> creating, tasks |-> tasks]

\* createTableForTopic up to its first await: an existing table is returned
\* as it is; without the mqtt_topics table there is nothing to call
\* operation() on and null is returned; otherwise create_table is issued and
\* stays in flight until the storage engine settles it.
createTableForTopic(inFlight, tableName) ==
  IF tableName \in tables THEN inFlight
  ELSE IF MQTT_TOPICS \notin tables THEN inFlight
  ELSE inFlight \cup {tableName}

\* setTimeout(async () => {...}) of the subscribe/unsubscribe handler: queued
\* only when globalThis.tables.mqtt_topics exists
ScheduleTask(queue, op, topic) ==
  IF MQTT_TOPICS \in tables
  THEN Append(queue, [op |-> op, topic |-> topic, phase |-> "scheduled",
                      exists |-> FALSE, subscription_count |-> 0, retain |-> FALSE])
  ELSE queue

\* cleanupTable
cleanupTable(reg, tableName) == MapDelete(reg, tableName)

\* updateRetainedStatus on the registry Map
updateRetainedStatus(reg, tableName, hasRetained) ==
  IF tableName \in DOMAIN reg
  THEN [reg EXCEPT ![tableName].hasRetained = hasRetained]
  ELSE reg

\* subscribe handler that creates the table and sets a fresh entry for a
\* concrete topic without looking at the registry first
SubscribeOne_Overwrites(s, topic) ==
  IF topic = <<>> THEN s
  ELSE IF IsSysTopic(topic) THEN
    LET m == onSubscribe(s.count, s.store, sysMetricsTable)
    IN [s EXCEPT !.count = m.count, !.store = m.store]
  ELSE IF IsWildcard(topic) THEN
    LET m == onSubscribe(s.count, s.store, sysMetricsTable)
        baseTopic == FirstSegment(topic)
        tableName == getTableNameForTopic(baseTopic)
        s1 == [s EXCEPT !.count = m.count, !.store = m.store]
    IN IF baseTopic # <<>> /\ baseTopic # <<"#">> /\ baseTopic # <<"+">>
       THEN IF tableName \notin DOMAIN s1.reg
            THEN [s1 EXCEPT !.creating = createTableForTopic(s1.creating, tableName),
                            !.reg = MapSet(s1.reg, tableName,
                                           [subscriptionCount |-> 1, hasRetained |-> FALSE])]
            ELSE [s1 EXCEPT !.reg[tableName].subscriptionCount = @ + 1]
       ELSE s1
  ELSE
    LET tableName == getTableNameForTopic(topic)
        s1 == [s EXCEPT !.tasks = ScheduleTask(s.tasks, "subscribe", topic)]
        s2 == [s1 EXCEPT !.creating = createTableForTopic(s1.creating, tableName),
                         !.reg = MapSet(s1.reg, tableName,
                                        [subscriptionCount |-> 0, hasRetained |-> FALSE])]
        s3 == [s2 EXCEPT !.reg[tableName].subscriptionCount = @ + 1]
        m == onSubscribe(s3.count, s3.store, sysMetricsTable)
    IN [s3 EXCEPT !.count = m.count, !.store = m.store]

\* subscribe handler, body of subscriptions.forEach for one topic
SubscribeOne(s, topic) ==
  IF topic = <<>> THEN s
  ELSE IF IsSysTopic(topic) THEN
    LET m == onSubscribe(s.count, s.store, sysMetricsTable)
    IN [s EXCEPT !.count = m.count, !.store = m.store]
  ELSE IF IsWildcard(topic) THEN
    LET m == onSubscribe(s.count, s.store, sysMetricsTable)
        baseTopic == FirstSegment(topic)
        tableName == getTableNameForTopic(baseTopic)
        s1 == [s EXCEPT !.count = m.count, !.store = m.store]
    IN IF baseTopic # <<>> /\ baseTopic # <<"#">> /\ baseTopic # <<"+">>
       THEN IF tableName \notin DOMAIN s1.reg
            THEN [s1 EXCEPT !.creating = createTableForTopic(s1.creating, tableName),
                            !.reg = MapSet(s1.reg, tableName,
                                           [subscriptionCount |-> 1, hasRetained |-> FALSE])]
            ELSE [s1 EXCEPT !.reg[tableName].subscriptionCount = @ + 1]
       ELSE s1
  ELSE
    LET tableName == getTableNameForTopic(topic)
        s1 == [s EXCEPT !.tasks = ScheduleTask(s.tasks, "subscribe", topic)]
        s2 == IF tableName \notin DOMAIN s1.reg
              THEN [s1 EXCEPT !.creating = createTableForTopic(s1.creating, tableName),
                              !.reg = MapSet(s1.reg, tableName,
                                             [subscriptionCount |-> 0, hasRetained |-> FALSE])]
              ELSE s1
        s3 == [s2 EXCEPT !.reg[tableName].subscriptionCount = @ + 1]
        m == onSubscribe(s3.count, s3.store, sysMetricsTable)
    IN [s3 EXCEPT !.count = m.count, !.store = m.store]

\* the unsubscribe handler without its decrement
DecrementEntry_Skipped(entry) == entry

\* the registry entry after the unsubscribe handler's decrement
DecrementEntry(entry) == [entry EXCEPT !.subscriptionCount = @ - 1]

\* cleanup condition that ignores retained messages
IsInactive_IgnoresRetained(entry) == entry.subscriptionCount = 0

\* the unsubscribe handler's cleanup condition
IsInactive(entry) == entry.subscriptionCount = 0 /\ ~entry.hasRetained

\* unsubscribe handler, body of unsubscriptions.forEach for one topic
UnsubscribeOne(s, topic) ==
  LET m == onUnsubscribe(s.count, s.store, sysMetricsTable)
      s1 == [s EXCEPT !.count = m.count, !.store = m.store]
  IN IF topic # <<>> /\ IsSysTopic(topic) THEN s1
     ELSE IF topic # <<>> /\ IsWildcard(topic) THEN s1
     ELSE IF topic = <<>> THEN s1
     ELSE
       LET tableName == getTableNameForTopic(topic)
           s2 == [s1 EXCEPT !.tasks = ScheduleTask(s1.tasks, "unsubscribe", topic)]
       IN IF tableName \in DOMAIN s2.reg
          THEN LET tableEntry == DecrementEntry(s2.reg[tableName])
               IN IF IsInactive(tableEntry)
                  THEN [s2 EXCEPT !.reg = cleanupTable(s2.reg, tableName)]
                  ELSE [s2 EXCEPT !.reg[tableName] = tableEntry]
          ELSE s2

RECURSIVE SubscribeAll(_, _)
SubscribeAll(s, subscriptions) ==
  IF subscriptions = <<>> THEN s
  ELSE SubscribeAll(SubscribeOne(s, Head(subscriptions)), Tail(subscriptions))

RECURSIVE UnsubscribeAll(_, _)
UnsubscribeAll(s, unsubscriptions) ==
  IF unsubscriptions = <<>> THEN s
  ELSE UnsubscribeAll(UnsubscribeOne(s, Head(unsubscriptions)), Tail(unsubscriptions))

\* arrays of topics one subscribe/unsubscribe event may carry
TopicArrays == UNION {[1..n -> Topics] : n \in 1..MaxBatch}

\* the counters, entries and queue of a handler result stay inside the bounds
WithinBounds(s) ==
  /\ s.count <= MaxCount
  /\ s.count >= 0 - MaxCount
  /\ \A t \in DOMAIN s.reg :
       s.reg[t].subscriptionCount <= MaxCount /\ s.reg[t].subscriptionCount >= 0 - MaxCount
  /\ Len(s.tasks) <= MaxTasks

\* 'subscribe' handler, for an event whose array is one of arrays
SubscribeWith(arrays) ==
  \E subscriptions \in arrays :
    LET r == SubscribeAll(HandlerState, subscriptions)
    IN /\ WithinBounds(r)
       /\ Record("subscribe", subscriptions)
       /\ subscriptionsCount' = r.count
       /\ sysStore' = r.store
       /\ tableRegistry' = r.reg
       /\ creating' = r.creating
       /\ tasks' = r.tasks
       /\ UNCHANGED <<clients, retainedCount, tables, sysMetricsTable, mqttTopics,
                      publisherVars,
                      writeVars, loadVars, monitoring>>

\* 'subscribe' handler
Subscribe == SubscribeWith(TopicArrays)

\* 'unsubscribe' handler, for an event whose array is one of arrays
UnsubscribeWith(arrays) ==
  \E unsubscriptions \in arrays :
    LET r == UnsubscribeAll(HandlerState, unsubscriptions)
    IN /\ WithinBounds(r)
       /\ Record("unsubscribe", unsubscriptions)
       /\ subscriptionsCount' = r.count
       /\ sysStore' = r.store
       /\ tableRegistry' = r.reg
       /\ creating' = r.creating
       /\ tasks' = r.tasks
       /\ UNCHANGED <<clients, retainedCount, tables, sysMetricsTable, mqttTopics,
                      publisherVars,
                      writeVars, loadVars, monitoring>>

\* 'unsubscribe' handler
Unsubscribe == UnsubscribeWith(TopicArrays)

\* table names callers pass to updateRetainedStatus: the names the mapper
\* yields for the model's topics and their first segments
TableNames ==
  {getTableNameForTopic(t) : t \in Topics} \cup {getTableNameForTopic(FirstSegment(t)) : t \in Topics}

\* updateRetainedStatus(tableName, hasRetained), exported
UpdateRetainedStatus ==
  \E tableName \in TableNames, hasRetained \in BOOLEAN :
    /\ tableRegistry' = updateRetainedStatus(tableRegistry, tableName, hasRetained)
    /\ Record("updateRetainedStatus", <<tableName>>)
    /\ UNCHANGED <<metricVars, tables, creating, storeVars, topicsVars, publisherVars,
                      writeVars, loadVars, monitoring>>

\* how the storage engine may settle a create_table operation: the table
\* is created, the engine reports that it already exists (another creator
\* was first), or the operation fails for another reason
CreateOutcomes == {"created", "already exists", "failed"}

\* createTableForTopic that treats every error of create_table alike
createTableResult_NotIdempotent(outcome) ==
  IF outcome = "created" THEN "table" ELSE "null"

\* createTableForTopic after its await: the table is returned when
\* create_table succeeded and when its error message includes 'already
\* exists'; any other error is logged and null is returned
createTableResult(outcome) ==
  IF outcome \in {"created", "already exists"} THEN "table" ELSE "null"

\* the storage engine settles a create_table operation and
\* createTableForTopic resumes after its await
CreateTableSettles ==
  \E tableName \in creating, outcome \in CreateOutcomes :
    /\ creating' = creating \ {tableName}
    /\ tables' = IF outcome = "failed" THEN tables ELSE tables \cup {tableName}
    /\ lastEvent' = [kind |-> "create_table settled", topics |-> <<tableName>>,
                      outcome |-> outcome, result |-> createTableResult(outcome)]
    /\ before' = Snapshot
    /\ UNCHANGED <<metricVars, tableRegistry, storeVars, topicsVars, publisherVars,
                      writeVars, loadVars, monitoring>>

(***************************************************************************)
(* Deferred subscription_count updates on the mqtt_topics table            *)
(***************************************************************************)
RemoveAt(q, i) == SubSeq(q, 1, i - 1) \o SubSeq(q, i + 1, Len(q))

\* await mqttTopicsTable.get(topic) of a deferred task
TaskRead ==
  \E i \in 1..Len(tasks) :
    /\ tasks[i].phase = "scheduled"
    /\ LET topic == tasks[i].topic
           found == topic \in DOMAIN mqttTopics
       IN tasks' = [tasks EXCEPT ![i] =
            [op |-> tasks[i].op, topic |-> topic, phase |-> "read", exists |-> found,
             subscription_count |-> IF found THEN mqttTopics[topic].subscription_count ELSE 0,
             retain |-> IF found THEN mqttTopics[topic].retain ELSE FALSE]]
    /\ Record("task read", <<>>)
    /\ UNCHANGED <<metricVars, registryVars, storeVars, mqttTopics, publisherVars,
                      writeVars, loadVars, monitoring>>

\* the rest of a deferred task after its read: the subscribe task puts the
\* incremented count; the unsubscribe task, when the row exists with a
\* positive count, deletes the row (count reaches 0, not retained) or puts
\* the decremented count, and otherwise does nothing
TaskWrite ==
  \E i \in 1..Len(tasks) :
    LET t == tasks[i]
    IN /\ t.phase = "read"
       /\ t.op \in {"subscribe", "unsubscribe"}
       /\ tasks' = RemoveAt(tasks, i)
       /\ IF t.op = "subscribe"
          THEN /\ t.subscription_count + 1 <= MaxCount
               /\ mqttTopics' = MapSet(mqttTopics, t.topic,
                                  [subscription_count |-> t.subscription_count + 1,
                                   retain |-> t.retain])
          ELSE IF t.exists /\ t.subscription_count > 0
               THEN IF t.subscription_count - 1 = 0 /\ ~t.retain
                    THEN mqttTopics' = MapDelete(mqttTopics, t.topic)
                    ELSE mqttTopics' = MapSet(mqttTopics, t.topic,
                                         [subscription_count |-> t.subscription_count - 1,
                                          retain |-> t.retain])
               ELSE mqttTopics' = mqttTopics
       /\ Record("task write", <<>>)
       /\ UNCHANGED <<metricVars, registryVars, storeVars, publisherVars,
                      writeVars, loadVars, monitoring>>

\* the plugin runs without an mqtt_topics table (as in the unit tests): no
\* table can be created and no deferred mqtt_topics update is queued
InitRegistry == Init /\ MQTT_TOPICS \notin tables

Next == Subscribe \/ Unsubscribe \/ UpdateRetainedStatus

\* subscribe/unsubscribe events and retained-status updates on the in-memory
\* counters and registry
Spec == InitRegistry /\ [][Next]_vars

\* the mqtt_topics table exists: tables get created and every concrete
\* subscribe/unsubscribe queues a deferred mqtt_topics update
InitStorage == Init /\ MQTT_TOPICS \in tables

NextStorage ==
  \/ Subscribe
  \/ Unsubscribe
  \/ UpdateRetainedStatus
  \/ CreateTableSettles
  \/ TaskRead
  \/ TaskWrite

\* the same events together with the storage engine and the deferred tasks
SpecStorage == InitStorage /\ [][NextStorage]_vars

\* table creation on its own: the mqtt_topics table is the only table at the
\* start, and the events carry a concrete topic or $SYS/#
InitCreation == Init /\ tables = {MQTT_TOPICS}

CreationArrays ==
  UNION {[1..n -> {TopicConcrete, TopicSysAll}] : n \in 1..MaxBatch}

CreationSubscribe == SubscribeWith(CreationArrays)

CreationUnsubscribe == UnsubscribeWith(CreationArrays)

NextCreation ==
  \/ CreationSubscribe
  \/ CreationUnsubscribe
  \/ UpdateRetainedStatus
  \/ CreateTableSettles
  \/ TaskRead
  \/ TaskWrite

SpecCreation == InitCreation /\ [][NextCreation]_vars

\* the plugin starts with no storage tables present: the aggregator and the
\* registry work in memory only
InitCounters == Init /\ tables = {}

\* topics clients publish to
PublishTopics == {TopicConcrete, TopicSysOne}

\* catch-all topic handler registered with addTopicHandler('#'): logs the
\* topic and returns {topic, status: 'accepted'}
Publish ==
  \E topic \in PublishTopics, retain \in BOOLEAN :
    /\ Record(IF retain THEN "publish retained" ELSE "publish", <<topic>>)
    /\ UNCHANGED <<metricVars, registryVars, storeVars, topicsVars, publisherVars,
                      writeVars, loadVars, monitoring>>

NextRetained ==
  \/ Subscribe
  \/ Unsubscribe
  \/ Publish
  \/ RetainedAdded
  \/ RetainedRemoved
  \/ UpdateRetainedStatus

\* publishes, retained-message events and subscriptions in any order, with
\* no storage tables present
SpecRetained == InitCounters /\ [][NextRetained]_vars

\* every event handler of setupMqttMonitoring that updates an aggregator
\* counter, delivered in any order, with no storage tables present.  The
\* subscribe and unsubscribe events carry the topics that take the
\* metrics-only paths of the handlers (empty, $SYS, bare wildcard), which
\* leave the registry alone.
CounterArrays == UNION {[1..n -> {TopicEmpty, TopicSysAll, TopicHash}] : n \in 1..MaxBatch}

CounterSubscribe == SubscribeWith(CounterArrays)

CounterUnsubscribe == UnsubscribeWith(CounterArrays)

NextCounters ==
  \/ Connected
  \/ Disconnected
  \/ RetainedAdded
  \/ RetainedRemoved
  \/ CounterSubscribe
  \/ CounterUnsubscribe

SpecCounters == InitCounters /\ [][NextCounters]_vars

(***************************************************************************)
(* $SYS periodic publisher (polling variant of the module)                 *)
(***************************************************************************)
PublisherState ==
  [count |-> sysSubscriberCount, interval |-> publishInterval, timers |-> activeTimers]

\* startSysPublisher: returns at once when the interval handle is set,
\* otherwise setInterval creates one more live timer
startSysPublisher(p) ==
  IF p.interval THEN p ELSE [p EXCEPT !.interval = TRUE, !.timers = @ + 1]

\* stopSysPublisher: clearInterval on the handle, when there is one
stopSysPublisher(p) ==
  IF p.interval THEN [p EXCEPT !.interval = FALSE, !.timers = @ - 1] ELSE p

\* onSysTopicSubscribe
onSysTopicSubscribe(p) ==
  LET p1 == [p EXCEPT !.count = @ + 1]
  IN IF p1.count = 1 THEN startSysPublisher(p1) ELSE p1

\* onSysTopicUnsubscribe that stops the publisher only below zero
onSysTopicUnsubscribe_NoStop(p) ==
  LET p1 == [p EXCEPT !.count = @ - 1]
  IN IF p1.count < 0 THEN stopSysPublisher([p1 EXCEPT !.count = 0]) ELSE p1

\* onSysTopicUnsubscribe
onSysTopicUnsubscribe(p) ==
  LET p1 == [p EXCEPT !.count = @ - 1]
  IN IF p1.count <= 0 THEN stopSysPublisher([p1 EXCEPT !.count = 0]) ELSE p1

\* topics delivered to the polling variant's handlers
PublisherTopics == {TopicSysAll, TopicSysOne, TopicConcrete}

PublisherArrays == UNION {[1..n -> PublisherTopics] : n \in 1..MaxBatch}

\* subscribe handler of the polling variant, topics.forEach: the aggregator's
\* onSubscribe there only increments subscriptions.count
RECURSIVE PublisherSubscribeAll(_, _)
PublisherSubscribeAll(s, topics) ==
  IF topics = <<>> THEN s
  ELSE LET topic == Head(topics)
           s1 == [s EXCEPT !.subs = @ + 1]
           s2 == IF IsSysTopic(topic)
                 THEN [s1 EXCEPT !.pub = onSysTopicSubscribe(s1.pub)] ELSE s1
       IN PublisherSubscribeAll(s2, Tail(topics))

\* unsubscribe handler of the polling variant, topics.forEach
RECURSIVE PublisherUnsubscribeAll(_, _)
PublisherUnsubscribeAll(s, topics) ==
  IF topics = <<>> THEN s
  ELSE LET topic == Head(topics)
           s1 == [s EXCEPT !.subs = @ - 1]
           s2 == IF IsSysTopic(topic)
                 THEN [s1 EXCEPT !.pub = onSysTopicUnsubscribe(s1.pub)] ELSE s1
       IN PublisherUnsubscribeAll(s2, Tail(topics))

\* 'subscribe' handler of the polling variant
PublisherSubscribe ==
  \E topics \in PublisherArrays :
    LET r == PublisherSubscribeAll([subs |-> subscriptionsCount, pub |-> PublisherState], topics)
    IN /\ r.subs <= MaxCount
       /\ r.pub.count <= MaxSysSubscribers
       /\ Record("subscribe", topics)
       /\ subscriptionsCount' = r.subs
       /\ sysSubscriberCount' = r.pub.count
       /\ publishInterval' = r.pub.interval
       /\ activeTimers' = r.pub.timers
       /\ UNCHANGED <<clients, retainedCount, registryVars, storeVars, topicsVars, sessions, retainedStore,
                      writeVars, loadVars, monitoring>>

\* 'unsubscribe' handler of the polling variant
PublisherUnsubscribe ==
  \E topics \in PublisherArrays :
    LET r == PublisherUnsubscribeAll([subs |-> subscriptionsCount, pub |-> PublisherState], topics)
    IN /\ r.subs >= 0 - MaxCount
       /\ Record("unsubscribe", topics)
       /\ subscriptionsCount' = r.subs
       /\ sysSubscriberCount' = r.pub.count
       /\ publishInterval' = r.pub.interval
       /\ activeTimers' = r.pub.timers
       /\ UNCHANGED <<clients, retainedCount, registryVars, storeVars, topicsVars, sessions, retainedStore,
                      writeVars, loadVars, monitoring>>

NextPublisher == PublisherSubscribe \/ PublisherUnsubscribe

\* $SYS and other subscribe/unsubscribe events of any number of clients,
\* interleaved in every order
SpecPublisher == Init /\ [][NextPublisher]_vars

(***************************************************************************)
(* The polling variant driven by broker sessions.  The broker delivers     *)
(* 'connected' for a client that is offline, 'subscribe' for topic filters *)
(* an online client does not hold yet, 'unsubscribe' for filters it holds, *)
(* and 'disconnected' for an online client; a clean session ends with the  *)
(* connection, a persistent one is kept with its subscriptions.            *)
(***************************************************************************)
ClientIds == 1..MaxSessions

\* $SYS topic filters clients subscribe to
SessionTopics == {TopicSysAll, TopicSysOne}

\* clients whose connection is open
Online == {c \in DOMAIN sessions : sessions[c].online}

\* MqttMetrics.onConnect of the polling variant
PollingOnConnect(c) ==
  LET connected == c.connected + 1
  IN [connected |-> connected, disconnected |-> c.disconnected,
      maximum |-> IF connected > c.maximum THEN connected ELSE c.maximum,
      total |-> connected + c.disconnected]

\* MqttMetrics.onDisconnect of the polling variant
PollingOnDisconnect(c, persistent) ==
  LET connected == c.connected - 1
      disconnected == IF persistent THEN c.disconnected + 1 ELSE c.disconnected
  IN [connected |-> connected, disconnected |-> disconnected,
      maximum |-> c.maximum, total |-> connected + disconnected]

\* 'connected' handler of the polling variant: metrics.onConnect(clientId,
\* !cleanSession).  A clean connect starts an empty session; a persistent
\* one resumes the stored session when there is one.
SessionConnected ==
  \E c \in ClientIds \ Online, cleanSession \in BOOLEAN :
    /\ clients.connected < MaxClients
    /\ clients' = PollingOnConnect(clients)
    /\ sessions' = MapSet(sessions, c,
                      [online |-> TRUE, clean |-> cleanSession,
                       topics |-> IF c \in DOMAIN sessions /\ ~cleanSession
                                  THEN sessions[c].topics ELSE {}])
    /\ Record("connected", <<>>)
    /\ UNCHANGED <<subscriptionsCount, retainedCount, registryVars, storeVars, topicsVars,
                   sysSubscriberCount, publishInterval, activeTimers, retainedStore,
                      writeVars, loadVars, monitoring>>

\* 'disconnected' handler of the polling variant: metrics.onDisconnect(clientId,
\* !cleanSession) and nothing else
SessionDisconnected ==
  \E c \in Online :
    LET persistent == ~sessions[c].clean
        r == PollingOnDisconnect(clients, persistent)
    IN /\ r.disconnected <= MaxClients
       /\ clients' = r
       /\ sessions' = IF persistent THEN [sessions EXCEPT ![c].online = FALSE]
                      ELSE MapDelete(sessions, c)
       /\ Record("disconnected", <<>>)
       /\ UNCHANGED <<subscriptionsCount, retainedCount, registryVars, storeVars, topicsVars,
                      sysSubscriberCount, publishInterval, activeTimers, retainedStore,
                      writeVars, loadVars, monitoring>>

\* 'subscribe' handler of the polling variant for one online client
SessionSubscribe ==
  \E c \in Online, topic \in SessionTopics :
    LET r == PublisherSubscribeAll([subs |-> subscriptionsCount, pub |-> PublisherState],
                                   <<topic>>)
    IN /\ topic \notin sessions[c].topics
       /\ r.subs <= MaxSysSubscribers
       /\ r.pub.count <= MaxSysSubscribers
       /\ sessions' = [sessions EXCEPT ![c].topics = @ \cup {topic}]
       /\ Record("subscribe", <<topic>>)
       /\ subscriptionsCount' = r.subs
       /\ sysSubscriberCount' = r.pub.count
       /\ publishInterval' = r.pub.interval
       /\ activeTimers' = r.pub.timers
       /\ UNCHANGED <<clients, retainedCount, registryVars, storeVars, topicsVars, retainedStore,
                      writeVars, loadVars, monitoring>>

\* 'unsubscribe' handler of the polling variant for one online client
SessionUnsubscribe ==
  \E c \in Online, topic \in SessionTopics :
    LET r == PublisherUnsubscribeAll([subs |-> subscriptionsCount, pub |-> PublisherState],
                                     <<topic>>)
    IN /\ topic \in sessions[c].topics
       /\ sessions' = [sessions EXCEPT ![c].topics = @ \ {topic}]
       /\ Record("unsubscribe", <<topic>>)
       /\ subscriptionsCount' = r.subs
       /\ sysSubscriberCount' = r.pub.count
       /\ publishInterval' = r.pub.interval
       /\ activeTimers' = r.pub.timers
       /\ UNCHANGED <<clients, retainedCount, registryVars, storeVars, topicsVars, retainedStore,
                      writeVars, loadVars, monitoring>>

NextSessions ==
  \/ SessionConnected
  \/ SessionDisconnected
  \/ SessionSubscribe
  \/ SessionUnsubscribe

\* connects, $SYS subscribes and unsubscribes, and disconnects of the clients
SpecSessions == Init /\ [][NextSessions]_vars

(***************************************************************************)
(* The converged module driven by broker sessions: a client subscribes to  *)
(* topic filters it does not hold yet and unsubscribes from filters it     *)
(* holds, so the broker's subscription table is known at every moment.     *)
(***************************************************************************)
\* topic filters the clients use: hierarchical, wildcard, single-segment
LiveTopics == {TopicConcrete, TopicWildcard, TopicSingle}

\* topic filters client c holds
Held(ss, c) == IF c \in DOMAIN ss THEN ss[c].topics ELSE {}

\* the broker's session of client c with its filters replaced
WithTopics(ss, c, topics) ==
  MapSet(ss, c, [online |-> TRUE, clean |-> TRUE, topics |-> topics])

\* the counters and entries of a handler result stay inside the bounds
LiveWithin(s) ==
  /\ s.count <= MaxLive
  /\ \A t \in DOMAIN s.reg : s.reg[t].subscriptionCount <= MaxLive

\* 'subscribe' handler for one filter of one client
LiveSubscribe ==
  \E c \in ClientIds, topic \in LiveTopics :
    LET r == SubscribeAll(HandlerState, <<topic>>)
    IN /\ topic \notin Held(sessions, c)
       /\ LiveWithin(r)
       /\ sessions' = WithTopics(sessions, c, Held(sessions, c) \cup {topic})
       /\ Record("subscribe", <<topic>>)
       /\ subscriptionsCount' = r.count
       /\ sysStore' = r.store
       /\ tableRegistry' = r.reg
       /\ creating' = r.creating
       /\ tasks' = r.tasks
       /\ UNCHANGED <<clients, retainedCount, tables, sysMetricsTable, mqttTopics,
                      sysSubscriberCount, publishInterval, activeTimers, retainedStore,
                      writeVars, loadVars, monitoring>>

\* 'unsubscribe' handler for one filter of one client
LiveUnsubscribe ==
  \E c \in ClientIds, topic \in LiveTopics :
    LET r == UnsubscribeAll(HandlerState, <<topic>>)
    IN /\ topic \in Held(sessions, c)
       /\ sessions' = WithTopics(sessions, c, Held(sessions, c) \ {topic})
       /\ Record("unsubscribe", <<topic>>)
       /\ subscriptionsCount' = r.count
       /\ sysStore' = r.store
       /\ tableRegistry' = r.reg
       /\ creating' = r.creating
       /\ tasks' = r.tasks
       /\ UNCHANGED <<clients, retainedCount, tables, sysMetricsTable, mqttTopics,
                      sysSubscriberCount, publishInterval, activeTimers, retainedStore,
                      writeVars, loadVars, monitoring>>

NextLive == LiveSubscribe \/ LiveUnsubscribe

\* subscribes and unsubscribes of the clients, with no storage tables present
SpecLive == InitCounters /\ [][NextLive]_vars

(***************************************************************************)
(* $SYS metrics table writes with the storage engine in the loop.          *)
(* upsertSysMetric calls sysMetricsTable.put(...) inside try/catch and     *)
(* does not await the result: a put either throws at the call, which the   *)
(* catch block logs, or is in flight when the handler returns and is       *)
(* resolved or rejected by the storage engine later.                       *)
(***************************************************************************)
\* the rows of a Map of puts, one after the other
RECURSIVE RowsOf(_)
RowsOf(rows) ==
  IF DOMAIN rows = {} THEN <<>>
  ELSE LET id == CHOOSE k \in DOMAIN rows : TRUE
       IN <<[id |-> id, topic |-> rows[id].topic, value |-> rows[id].value]>>
          \o RowsOf(MapDelete(rows, id))

\* The sysMetricsTable.put calls of one handler run, given the rows its
\* upsertSysMetric calls build: each call throws (caught and logged, nothing
\* written) or leaves its put in flight.
IssuePuts(rows) ==
  \E threw \in SUBSET DOMAIN rows :
    LET issued == RowsOf([id \in (DOMAIN rows) \ threw |-> rows[id]])
    IN /\ Len(pendingWrites) + Len(issued) <= MaxPending
       /\ caught + Cardinality(threw) <= MaxFailures
       /\ pendingWrites' = pendingWrites \o issued
       /\ caught' = caught + Cardinality(threw)
       /\ lastPuts' = [issued |-> RowsOf(rows), threw |-> threw]
       /\ UNCHANGED uncaught

\* 'connected' handler
ConnectedWrites ==
  \E clean \in BOOLEAN :
    LET r == onConnect(clients, EmptyMap, sysMetricsTable)
    IN /\ clients.connected < MaxWriters
       /\ clients' = r.clients
       /\ IssuePuts(r.store)
       /\ Record("connected", <<>>)
       /\ UNCHANGED <<subscriptionsCount, retainedCount, registryVars, storeVars,
                      topicsVars, publisherVars, loadVars, monitoring>>

\* 'disconnected' handler
DisconnectedWrites ==
  \E hasSession \in BOOLEAN, sessionWasPresent \in BOOLEAN :
    IF ~hasSession
    THEN /\ Record("disconnected without session", <<>>)
         /\ lastPuts' = [issued |-> <<>>, threw |-> {}]
         /\ UNCHANGED <<metricVars, registryVars, storeVars, topicsVars, publisherVars,
                        pendingWrites, caught, uncaught, loadVars, monitoring>>
    ELSE LET r == onDisconnect(clients, sessionWasPresent, EmptyMap, sysMetricsTable)
         IN /\ r.clients.disconnected <= MaxWriters
            /\ clients' = r.clients
            /\ IssuePuts(r.store)
            /\ Record("disconnected", <<>>)
            /\ UNCHANGED <<subscriptionsCount, retainedCount, registryVars, storeVars,
                           topicsVars, publisherVars, loadVars, monitoring>>

\* 'retained-added' handler
RetainedAddedWrites ==
  \E topic \in RetainedTopics :
    LET r == onRetainedMessageAdded(retainedCount, EmptyMap, sysMetricsTable)
    IN /\ r.count <= MaxCount
       /\ retainedCount' = r.count
       /\ retainedStore' = retainedStore \cup {topic}
       /\ IssuePuts(r.store)
       /\ Record("retained-added", <<topic>>)
       /\ UNCHANGED <<clients, subscriptionsCount, registryVars, storeVars,
                      topicsVars, sysSubscriberCount, publishInterval, activeTimers,
                      sessions, loadVars, monitoring>>

\* 'retained-removed' handler
RetainedRemovedWrites ==
  \E topic \in RetainedTopics :
    LET r == onRetainedMessageRemoved(retainedCount, EmptyMap, sysMetricsTable)
    IN /\ r.count >= 0 - MaxCount
       /\ retainedCount' = r.count
       /\ retainedStore' = retainedStore \ {topic}
       /\ IssuePuts(r.store)
       /\ Record("retained-removed", <<topic>>)
       /\ UNCHANGED <<clients, subscriptionsCount, registryVars, storeVars,
                      topicsVars, sysSubscriberCount, publishInterval, activeTimers,
                      sessions, loadVars, monitoring>>

\* a put in flight may settle once no earlier put on the same id is in flight
MaySettle(i) == \A j \in 1..(i - 1) : pendingWrites[j].id # pendingWrites[i].id

\* the storage engine resolves a put: the row is written under its id
PutResolves ==
  \E i \in 1..Len(pendingWrites) :
    LET w == pendingWrites[i]
    IN /\ MaySettle(i)
       /\ sysStore' = MapSet(sysStore, w.id, [topic |-> w.topic, value |-> w.value])
       /\ pendingWrites' = RemoveAt(pendingWrites, i)
       /\ lastPuts' = [issued |-> <<>>, threw |-> {}]
       /\ Record("put resolved", <<w.topic>>)
       /\ UNCHANGED <<metricVars, registryVars, sysMetricsTable, topicsVars, publisherVars,
                      caught, uncaught, loadVars, monitoring>>

\* the storage engine rejects a put: the promise put returned was dropped by
\* upsertSysMetric, so the rejection reaches no catch block
PutRejects ==
  \E i \in 1..Len(pendingWrites) :
    LET w == pendingWrites[i]
    IN /\ MaySettle(i)
       /\ uncaught < MaxFailures
       /\ uncaught' = uncaught + 1
       /\ pendingWrites' = RemoveAt(pendingWrites, i)
       /\ lastPuts' = [issued |-> <<>>, threw |-> {}]
       /\ Record("put rejected", <<w.topic>>)
       /\ UNCHANGED <<metricVars, registryVars, storeVars, topicsVars, publisherVars,
                      caught, loadVars, monitoring>>

\* the row a read of a $SYS topic from the metrics table returns: the table
\* is exported as $SYS, so the topic addresses the row whose id is the path
\* after '$SYS/'
readSysMetric(store, topic) ==
  LET id == IF StartsWith(topic, SYS_PREFIX) THEN SubSeq(topic, 6, Len(topic)) ELSE topic
  IN IF id \in DOMAIN store
     THEN [found |-> TRUE, value |-> store[id].value]
     ELSE [found |-> FALSE, value |-> <<>>]

NextWrites ==
  \/ ConnectedWrites
  \/ DisconnectedWrites
  \/ PutResolves
  \/ PutRejects

\* the connection event handlers together with the storage engine; the
\* $SYS metrics table may or may not exist
InitWrites == Init /\ MQTT_TOPICS \notin tables

SpecWrites == InitWrites /\ [][NextWrites]_vars

NextNoTable ==
  \/ ConnectedWrites
  \/ DisconnectedWrites
  \/ RetainedAddedWrites
  \/ RetainedRemovedWrites

\* the metrics-only event handlers while the $SYS metrics table is missing
\* and its reference therefore unset
SpecNoTable == InitCounters /\ [][NextNoTable]_vars

(***************************************************************************)
(* System metrics sampler: heap, uptime and the load averages.  The clock  *)
(* counts minutes, so a window of n minutes is n units of Date.now().      *)
(* No handler of the module calls onPublishReceived or onPublishSent, so   *)
(* the message and byte counters keep their initial values.                *)
(***************************************************************************)
TIME_WINDOWS ==
  [ONE_MIN |-> [ms |-> 1, minutes |-> 1],
   FIVE_MIN |-> [ms |-> 5, minutes |-> 5],
   FIFTEEN_MIN |-> [ms |-> 15, minutes |-> 15]]

TOPIC_HEAP_CURRENT == <<"$", "S", "Y", "S", "/", "b", "r", "o", "k", "e", "r", "/", "h", "e", "a", "p", "/", "c", "u", "r", "r", "e", "n", "t">>
TOPIC_HEAP_MAXIMUM == <<"$", "S", "Y", "S", "/", "b", "r", "o", "k", "e", "r", "/", "h", "e", "a", "p", "/", "m", "a", "x", "i", "m", "u", "m">>
TOPIC_UPTIME == <<"$", "S", "Y", "S", "/", "b", "r", "o", "k", "e", "r", "/", "u", "p", "t", "i", "m", "e">>
TOPIC_LOAD == <<"$", "S", "Y", "S", "/", "b", "r", "o", "k", "e", "r", "/", "l", "o", "a", "d", "/">>

\* the path of a load metric under $SYS/broker/load/
LoadPath(metric) ==
  CASE metric = "connections" -> <<"c", "o", "n", "n", "e", "c", "t", "i", "o", "n", "s">>
    [] metric = "messagesReceived" -> <<"m", "e", "s", "s", "a", "g", "e", "s", "/", "r", "e", "c", "e", "i", "v", "e", "d">>
    [] metric = "messagesSent" -> <<"m", "e", "s", "s", "a", "g", "e", "s", "/", "s", "e", "n", "t">>
    [] metric = "bytesReceived" -> <<"b", "y", "t", "e", "s", "/", "r", "e", "c", "e", "i", "v", "e", "d">>
    [] metric = "bytesSent" -> <<"b", "y", "t", "e", "s", "/", "s", "e", "n", "t">>
    [] metric = "publishReceived" -> <<"p", "u", "b", "l", "i", "s", "h", "/", "r", "e", "c", "e", "i", "v", "e", "d">>
    [] metric = "publishSent" -> <<"p", "u", "b", "l", "i", "s", "h", "/", "s", "e", "n", "t">>

\* memUsage.heapUsed as process.memoryUsage() reports it; the heap figures
\* enter no load average
HeapSizes == {1}

\* minutes that pass between two reads of the clock
ClockSteps == {5, 15}

RECURSIVE Gcd(_, _)
Gcd(a, b) == IF b = 0 THEN a ELSE Gcd(b, a % b)

\* delta / minutes as a fraction in lowest terms
Quotient(delta, minutes) ==
  LET g == Gcd(IF delta < 0 THEN 0 - delta ELSE delta, minutes)
  IN [delta |-> delta \div g, minutes |-> minutes \div g]

\* digits String(x) prints for a quotient
RateDigits == 16

RECURSIVE FractionDigits(_, _, _)
FractionDigits(rem, den, k) ==
  IF rem = 0 \/ k = 0 THEN <<>>
  ELSE <<DigitChar((rem * 10) \div den)>> \o FractionDigits((rem * 10) % den, den, k - 1)

\* String(value) for a load average: the integer when the quotient is one,
\* otherwise the decimal expansion up to RateDigits fraction digits
RateString(rate) ==
  LET a == IF rate.delta < 0 THEN 0 - rate.delta ELSE rate.delta
      whole == (IF rate.delta < 0 THEN <<"-">> ELSE <<>>) \o NatToString(a \div rate.minutes)
  IN IF a % rate.minutes = 0 THEN whole
     ELSE whole \o <<".">> \o FractionDigits(a % rate.minutes, rate.minutes, RateDigits)

\* upsertSysMetric called with a load average
upsertSysLoad(store, hasTable, topic, rate) ==
  IF ~hasTable THEN store
  ELSE LET relativePath == IF StartsWith(topic, SYS_PREFIX)
                           THEN SubSeq(topic, 6, Len(topic)) ELSE topic
       IN MapSet(store, relativePath, [topic |-> topic, value |-> RateString(rate)])

\* samples.filter((s) => s.time > cutoff)
SamplesAfter(samples, cutoff) == SelectSeq(samples, LAMBDA sample : sample.time > cutoff)

\* calculatePeriodAverage that divides by one minute whatever the window
calculatePeriodAverage_PerMinute(samples, cutoffTime, minutes) ==
  LET periodSamples == SamplesAfter(samples, cutoffTime)
  IN IF Len(periodSamples) > 0
     THEN Quotient(periodSamples[Len(periodSamples)].value - periodSamples[1].value, 1)
     ELSE ZeroRate

\* calculatePeriodAverage
calculatePeriodAverage(samples, cutoffTime, minutes) ==
  LET periodSamples == SamplesAfter(samples, cutoffTime)
  IN IF Len(periodSamples) > 0
     THEN Quotient(periodSamples[Len(periodSamples)].value - periodSamples[1].value, minutes)
     ELSE ZeroRate

\* _calculateLoadAverages, with t the value its Date.now() returns
calculateLoadAverages(samples, t) ==
  [metric \in LoadMetrics |->
     [oneMin |-> calculatePeriodAverage(samples[metric], t - TIME_WINDOWS.ONE_MIN.ms,
                                        TIME_WINDOWS.ONE_MIN.minutes),
      fiveMin |-> calculatePeriodAverage(samples[metric], t - TIME_WINDOWS.FIVE_MIN.ms,
                                         TIME_WINDOWS.FIVE_MIN.minutes),
      fifteenMin |-> calculatePeriodAverage(samples[metric], t - TIME_WINDOWS.FIFTEEN_MIN.ms,
                                            TIME_WINDOWS.FIFTEEN_MIN.minutes)]]

\* the cumulative counter sampled for a load metric
LoadCounter(metric) ==
  CASE metric = "connections" -> clients.connected
    [] metric = "messagesReceived" -> traffic.received
    [] metric = "messagesSent" -> traffic.sent
    [] metric = "bytesReceived" -> traffic.bytesReceived
    [] metric = "bytesSent" -> traffic.bytesSent
    [] metric = "publishReceived" -> traffic.publishReceived
    [] metric = "publishSent" -> traffic.publishSent

\* the cleanup of _updateSystemMetrics without its filter
pruneSamples_KeepsAll(samples, t) == samples

\* 'Clean old samples' of _updateSystemMetrics: cutoff = now - 15 * 60 * 1000
pruneSamples(samples, t) ==
  [metric \in LoadMetrics |-> SamplesAfter(samples[metric], t - 15)]

\* the upserts of the load averages at the end of _updateSystemMetrics
RECURSIVE UpsertLoads(_, _, _)
UpsertLoads(store, averages, metrics) ==
  IF metrics = {} THEN store
  ELSE LET metric == CHOOSE m \in metrics : TRUE
           topic == TOPIC_LOAD \o LoadPath(metric)
           s1 == upsertSysLoad(store, sysMetricsTable, topic \o <<"/", "1", "m", "i", "n">>,
                               averages[metric].oneMin)
           s2 == upsertSysLoad(s1, sysMetricsTable, topic \o <<"/", "5", "m", "i", "n">>,
                               averages[metric].fiveMin)
           s3 == upsertSysLoad(s2, sysMetricsTable, topic \o <<"/", "1", "5", "m", "i", "n">>,
                               averages[metric].fifteenMin)
       IN UpsertLoads(s3, averages, metrics \ {metric})

\* _updateSystemMetrics, run by the 10-second interval and by
\* setSysMetricsTable: samples the heap, appends the current counters to
\* the seven sample sequences, prunes them, recomputes the load averages
\* and upserts heap, uptime and the averages.  Date.now() is read at the
\* start and again in _calculateLoadAverages; lag is the time that passed
\* between the two reads.
UpdateSystemMetrics ==
  \E heapUsed \in HeapSizes, lag \in {0} \cup ClockSteps :
    LET pushed == [metric \in LoadMetrics |->
                     Append(loadSamples[metric],
                            [time |-> now, value |-> LoadCounter(metric)])]
        kept == pruneSamples(pushed, now)
        averages == calculateLoadAverages(kept, now + lag)
        h == [current |-> heapUsed,
              maximum |-> IF heapUsed > heap.maximum THEN heapUsed ELSE heap.maximum]
        s1 == upsertSysMetric(sysStore, sysMetricsTable, TOPIC_HEAP_CURRENT, h.current)
        s2 == upsertSysMetric(s1, sysMetricsTable, TOPIC_HEAP_MAXIMUM, h.maximum)
        s3 == upsertSysMetric(s2, sysMetricsTable, TOPIC_UPTIME, (now + lag) * 60)
    IN /\ now + lag <= MaxTime
       /\ \A metric \in LoadMetrics : Len(kept[metric]) <= MaxSamples
       /\ heap' = h
       /\ loadSamples' = kept
       /\ load' = averages
       /\ now' = now + lag
       /\ sysStore' = UpsertLoads(s3, averages, LoadMetrics)
       /\ Record("updateSystemMetrics", <<>>)
       /\ UNCHANGED <<metricVars, registryVars, sysMetricsTable, topicsVars, publisherVars,
                      writeVars, traffic, monitoring>>

\* time passes
Tick ==
  \E d \in ClockSteps :
    /\ now + d <= MaxTime
    /\ now' = now + d
    /\ Record("tick", <<>>)
    /\ UNCHANGED <<metricVars, registryVars, storeVars, topicsVars, publisherVars,
                   writeVars, traffic, heap, loadSamples, load, monitoring>>

\* 'connected' handler, for at most MaxLoadClients connected clients
LoadConnected == clients.connected < MaxLoadClients /\ Connected

\* 'disconnected' handler, for at most MaxLoadClients stored sessions
LoadDisconnected == clients.disconnected < MaxLoadClients /\ Disconnected

NextLoad ==
  \/ LoadConnected
  \/ LoadDisconnected
  \/ UpdateSystemMetrics
  \/ Tick

\* the sampler, the clock and the connection events, with no storage tables
SpecLoad == InitCounters /\ [][NextLoad]_vars

(***************************************************************************)
(* Plugin start: setupMqttMonitoring is handed whatever server the host    *)
(* provides.  The broker delivers an event only to handlers that were      *)
(* installed; the sampler interval is started by the MqttMetrics           *)
(* constructor and runs either way.                                        *)
(***************************************************************************)
InitSetup ==
  /\ InitModule
  /\ tables = {}
  /\ \E server \in Servers :
       monitoring = [server |-> server, result |-> setupMqttMonitoring(server)]

HandlersInstalled == monitoring.result = "installed"

SetupConnected == HandlersInstalled /\ LoadConnected

SetupSubscribe == HandlersInstalled /\ CreationSubscribe

NextSetup ==
  \/ SetupConnected
  \/ SetupSubscribe
  \/ UpdateSystemMetrics

SpecSetup == InitSetup /\ [][NextSetup]_vars

(***************************************************************************)
(* Topic-to-table mapper called on its own                                 *)
(***************************************************************************)
\* characters of the topics handed to the mapper: a lower-case letter, an
\* upper-case letter, a character outside [a-z0-9_], the separator, a digit
MapperChars == {"a", "B", "-", "/", "1"}

MapperTopics == UNION {[1..n -> MapperChars] : n \in 0..MaxTopicLen}

\* one call of getTableNameForTopic(topic)
MapTopic ==
  \E topic \in MapperTopics :
    /\ lastEvent' = [kind |-> "getTableNameForTopic", topics |-> <<topic>>,
                     result |-> getTableNameForTopic(topic)]
    /\ before' = Snapshot
    /\ UNCHANGED <<metricVars, registryVars, storeVars, topicsVars, publisherVars,
                   writeVars, loadVars, monitoring>>

NextMapper == MapTopic

SpecMapper == Init /\ [][NextMapper]_vars


(***************************************************************************)
(* The converged module driven by clients that connect, subscribe and      *)
(* disconnect.  The broker keeps the session of a client that connected    *)
(* with clean = false when its connection ends, and discards a clean       *)
(* session together with its subscriptions; session.sessionWasPresent is   *)
(* set at connect when a stored session of the client was resumed.         *)
(***************************************************************************)
\* concrete topics the clients subscribe to
ClientTopics == {TopicConcrete, TopicConcreteB}

\* stored sessions whose connection is closed
Offline(ss) == {c \in DOMAIN ss : ~ss[c].online}

\* 'connected' handler for client c: metrics.onConnect(clientId, !clean)
ClientConnected ==
  \E c \in ClientIds \ Online, clean \in BOOLEAN :
    LET resumed == ~clean /\ c \in DOMAIN sessions
        r == onConnect(clients, sysStore, sysMetricsTable)
    IN /\ clients' = r.clients
       /\ sysStore' = r.store
       /\ sessions' = MapSet(sessions, c,
                         [online |-> TRUE, clean |-> clean, sessionWasPresent |-> resumed,
                          topics |-> IF resumed THEN sessions[c].topics ELSE {}])
       /\ lastEvent' = [kind |-> "connected", topics |-> <<>>, client |-> c]
       /\ before' = Snapshot
       /\ UNCHANGED <<subscriptionsCount, retainedCount, registryVars, sysMetricsTable,
                      topicsVars, sysSubscriberCount, publishInterval, activeTimers,
                      retainedStore, writeVars, loadVars, monitoring>>

\* 'disconnected' handler for client c:
\* metrics.onDisconnect(clientId, session.sessionWasPresent || false)
ClientDisconnected ==
  \E c \in Online :
    LET r == onDisconnect(clients, sessions[c].sessionWasPresent, sysStore, sysMetricsTable)
    IN /\ r.clients.disconnected <= MaxClients
       /\ clients' = r.clients
       /\ sysStore' = r.store
       /\ sessions' = IF sessions[c].clean THEN MapDelete(sessions, c)
                      ELSE [sessions EXCEPT ![c].online = FALSE]
       /\ lastEvent' = [kind |-> "disconnected", topics |-> <<>>, client |-> c]
       /\ before' = Snapshot
       /\ UNCHANGED <<subscriptionsCount, retainedCount, registryVars, sysMetricsTable,
                      topicsVars, sysSubscriberCount, publishInterval, activeTimers,
                      retainedStore, writeVars, loadVars, monitoring>>

\* 'subscribe' handler for one topic of one connected client
ClientSubscribe ==
  \E c \in Online, topic \in ClientTopics :
    LET r == SubscribeAll(HandlerState, <<topic>>)
    IN /\ topic \notin sessions[c].topics
       /\ LiveWithin(r)
       /\ sessions' = [sessions EXCEPT ![c].topics = @ \cup {topic}]
       /\ lastEvent' = [kind |-> "subscribe", topics |-> <<topic>>, client |-> c]
       /\ before' = Snapshot
       /\ subscriptionsCount' = r.count
       /\ sysStore' = r.store
       /\ tableRegistry' = r.reg
       /\ creating' = r.creating
       /\ tasks' = r.tasks
       /\ UNCHANGED <<clients, retainedCount, tables, sysMetricsTable, mqttTopics,
                      sysSubscriberCount, publishInterval, activeTimers, retainedStore,
                      writeVars, loadVars, monitoring>>

\* 'unsubscribe' handler for one topic of one connected client
ClientUnsubscribe ==
  \E c \in Online, topic \in ClientTopics :
    LET r == UnsubscribeAll(HandlerState, <<topic>>)
    IN /\ topic \in sessions[c].topics
       /\ sessions' = [sessions EXCEPT ![c].topics = @ \ {topic}]
       /\ lastEvent' = [kind |-> "unsubscribe", topics |-> <<topic>>, client |-> c]
       /\ before' = Snapshot
       /\ subscriptionsCount' = r.count
       /\ sysStore' = r.store
       /\ tableRegistry' = r.reg
       /\ creating' = r.creating
       /\ tasks' = r.tasks
       /\ UNCHANGED <<clients, retainedCount, tables, sysMetricsTable, mqttTopics,
                      sysSubscriberCount, publishInterval, activeTimers, retainedStore,
                      writeVars, loadVars, monitoring>>

NextClients ==
  \/ ClientConnected
  \/ ClientDisconnected
  \/ ClientSubscribe
  \/ ClientUnsubscribe

\* connects, subscribes, unsubscribes and disconnects of the clients, with no
\* storage tables present
SpecClients == InitCounters /\ [][NextClients]_vars

(***************************************************************************)
(* A subscribe event directly followed by the unsubscribe event for the    *)
(* same topic                                                              *)
(***************************************************************************)
\* topics of the round trips: concrete, wildcard, $SYS-prefixed, empty
RoundTripTopics == {TopicConcrete, TopicWildcard, TopicSysAll, TopicEmpty}

\* the 'subscribe' handler for [topic] and then the 'unsubscribe' handler for
\* [topic], with no other event in between
SubscribeThenUnsubscribe ==
  \E topic \in RoundTripTopics :
    LET r == UnsubscribeAll(SubscribeAll(HandlerState, <<topic>>), <<topic>>)
    IN /\ WithinBounds(r)
       /\ Record("subscribe then unsubscribe", <<topic>>)
       /\ subscriptionsCount' = r.count
       /\ sysStore' = r.store
       /\ tableRegistry' = r.reg
       /\ creating' = r.creating
       /\ tasks' = r.tasks
       /\ UNCHANGED <<clients, retainedCount, tables, sysMetricsTable, mqttTopics,
                      publisherVars, writeVars, loadVars, monitoring>>

NextRoundTrip ==
  \/ Subscribe
  \/ Unsubscribe
  \/ UpdateRetainedStatus
  \/ SubscribeThenUnsubscribe

\* round trips from every state subscribes, unsubscribes and retained
\* updates lead to, with no storage tables present
SpecRoundTrip == InitCounters /\ [][NextRoundTrip]_vars

(***************************************************************************)
(* Deferred mqtt_topics updates of one concrete topic, several in flight   *)
(***************************************************************************)
\* the handler result stays inside the bounds of these runs
QueueWithin(s) ==
  /\ s.count <= MaxQueued
  /\ Len(s.tasks) <= MaxQueued

\* 'subscribe' handler for the concrete topic
QueuedSubscribe ==
  LET r == SubscribeAll(HandlerState, <<TopicConcrete>>)
  IN /\ QueueWithin(r)
     /\ Record("subscribe", <<TopicConcrete>>)
     /\ subscriptionsCount' = r.count
     /\ sysStore' = r.store
     /\ tableRegistry' = r.reg
     /\ creating' = r.creating
     /\ tasks' = r.tasks
     /\ UNCHANGED <<clients, retainedCount, tables, sysMetricsTable, mqttTopics,
                    publisherVars, writeVars, loadVars, monitoring>>

\* 'unsubscribe' handler for the concrete topic, delivered for a
\* subscription that exists
QueuedUnsubscribe ==
  LET r == UnsubscribeAll(HandlerState, <<TopicConcrete>>)
  IN /\ subscriptionsCount > 0
     /\ QueueWithin(r)
     /\ Record("unsubscribe", <<TopicConcrete>>)
     /\ subscriptionsCount' = r.count
     /\ sysStore' = r.store
     /\ tableRegistry' = r.reg
     /\ creating' = r.creating
     /\ tasks' = r.tasks
     /\ UNCHANGED <<clients, retainedCount, tables, sysMetricsTable, mqttTopics,
                    publisherVars, writeVars, loadVars, monitoring>>

NextQueued ==
  \/ QueuedSubscribe
  \/ QueuedUnsubscribe
  \/ CreateTableSettles
  \/ TaskRead
  \/ TaskWrite

\* subscribes and unsubscribes of one topic with the mqtt_topics table
\* present, their deferred updates interleaved in every order
SpecQueued == InitCreation /\ [][NextQueued]_vars

\* writeMessageToTable up to its first await: without the mqtt_topics table
\* it returns; otherwise mqttTopicsTable.get(message.topic) is in flight
writeMessageToTable(queue, topic, retain) ==
  IF MQTT_TOPICS \in tables
  THEN Append(queue, [op |-> IF retain THEN "message retained" ELSE "message",
                      topic |-> topic, phase |-> "scheduled",
                      exists |-> FALSE, subscription_count |-> 0, retain |-> FALSE])
  ELSE queue

\* one call of writeMessageToTable for a message on the concrete topic
WriteMessage ==
  \E retain \in BOOLEAN :
    LET queue == writeMessageToTable(tasks, TopicConcrete, retain)
    IN /\ Len(queue) <= MaxQueued
       /\ tasks' = queue
       /\ Record("writeMessageToTable", <<TopicConcrete>>)
       /\ UNCHANGED <<metricVars, registryVars, storeVars, mqttTopics, publisherVars,
                      writeVars, loadVars, monitoring>>

\* the rest of writeMessageToTable after its get: the message is put with
\* the subscription_count that was read
MessagePut ==
  \E i \in 1..Len(tasks) :
    LET t == tasks[i]
    IN /\ t.phase = "read"
       /\ t.op \in {"message", "message retained"}
       /\ tasks' = RemoveAt(tasks, i)
       /\ mqttTopics' = MapSet(mqttTopics, t.topic,
                          [subscription_count |-> t.subscription_count,
                           retain |-> (t.op = "message retained")])
       /\ Record("message put", <<t.topic>>)
       /\ UNCHANGED <<metricVars, registryVars, storeVars, publisherVars,
                      writeVars, loadVars, monitoring>>

NextMessages ==
  \/ QueuedSubscribe
  \/ QueuedUnsubscribe
  \/ WriteMessage
  \/ MessagePut
  \/ TaskRead
  \/ TaskWrite

\* message writes interleaved with the deferred updates of subscribes and
\* unsubscribes of the same topic
SpecMessages == InitCreation /\ [][NextMessages]_vars

(***************************************************************************)
(* Properties                                                              *)
(***************************************************************************)
\* a topic that takes the table-lifecycle path of the handlers
IsConcrete(topic) == topic # <<>> /\ ~IsSysTopic(topic) /\ ~IsWildcard(topic)

TableOfConcrete == getTableNameForTopic(TopicConcrete)

\* C1: subscriptions.count never becomes negative, whatever the sequence of
\* subscribe and unsubscribe events (an unsubscribe at 0 leaves it at 0).
C1_SubscriptionsCountNonNegative == subscriptionsCount >= 0

\* C2: no registry entry's subscriptionCount ever becomes negative.
C2_EntryCountNonNegative ==
  \A tableName \in DOMAIN tableRegistry : tableRegistry[tableName].subscriptionCount >= 0

\* C3: a subscribe event whose topics all contain a wildcard marker leaves
\* the registry as it was, starts no table creation, and adds one to
\* subscriptions.count per topic.
C3_WildcardSubscribeLeavesRegistry ==
  (/\ lastEvent.kind = "subscribe"
   /\ \A i \in 1..Len(lastEvent.topics) : IsWildcard(lastEvent.topics[i]))
  => /\ tableRegistry = before.reg
     /\ creating = before.creating
     /\ subscriptionsCount = before.count + Len(lastEvent.topics)

\* C4: right after an unsubscribe event that names a concrete topic whose
\* entry had subscriptionCount 1 and hasRetained false, the registry has no
\* entry for that topic's table.
C4_LastUnsubscribeRemovesEntry ==
  lastEvent.kind = "unsubscribe" =>
    \A i \in 1..Len(lastEvent.topics) :
      LET topic == lastEvent.topics[i]
          tableName == getTableNameForTopic(topic)
      IN (/\ IsConcrete(topic)
          /\ tableName \in DOMAIN before.reg
          /\ before.reg[tableName].subscriptionCount = 1
          /\ ~before.reg[tableName].hasRetained)
         => tableName \notin DOMAIN tableRegistry

\* C4 witness: the unsubscribe of the concrete topic has just removed the
\* entry that stood at count 1 without a retained message.
C4_Witness ==
  /\ lastEvent = [kind |-> "unsubscribe", topics |-> <<TopicConcrete>>]
  /\ TableOfConcrete \in DOMAIN before.reg
  /\ before.reg[TableOfConcrete] = [subscriptionCount |-> 1, hasRetained |-> FALSE]
  /\ TableOfConcrete \notin DOMAIN tableRegistry

\* C5: an entry whose hasRetained is true is never removed: no step removes
\* it, an unsubscribe leaves its flag set, and when its last subscriber
\* leaves it stays with subscriptionCount 0.
C5_RetainedEntrySurvives ==
  \A tableName \in DOMAIN before.reg :
    before.reg[tableName].hasRetained =>
      /\ tableName \in DOMAIN tableRegistry
      /\ lastEvent.kind = "unsubscribe" =>
           /\ tableRegistry[tableName].hasRetained
           /\ (/\ before.reg[tableName].subscriptionCount = 1
               /\ Len(lastEvent.topics) = 1
               /\ IsConcrete(lastEvent.topics[1])
               /\ getTableNameForTopic(lastEvent.topics[1]) = tableName)
              => tableRegistry[tableName].subscriptionCount = 0

\* C5 witness: the last subscriber of a table with a retained message has
\* just unsubscribed and the entry is kept at count 0.
C5_Witness ==
  /\ lastEvent = [kind |-> "unsubscribe", topics |-> <<TopicConcrete>>]
  /\ TableOfConcrete \in DOMAIN before.reg
  /\ before.reg[TableOfConcrete] = [subscriptionCount |-> 1, hasRetained |-> TRUE]
  /\ TableOfConcrete \in DOMAIN tableRegistry
  /\ tableRegistry[TableOfConcrete] = [subscriptionCount |-> 0, hasRetained |-> TRUE]

\* C6: right after the unsubscribe event that takes a concrete topic's entry
\* from subscriptionCount 1 to 0 with hasRetained false, the table is neither
\* in the registry nor in the storage engine.
C6_LastUnsubscribeDropsTable ==
  lastEvent.kind = "unsubscribe" =>
    \A i \in 1..Len(lastEvent.topics) :
      LET topic == lastEvent.topics[i]
          tableName == getTableNameForTopic(topic)
      IN (/\ IsConcrete(topic)
          /\ tableName \in DOMAIN before.reg
          /\ before.reg[tableName].subscriptionCount = 1
          /\ ~before.reg[tableName].hasRetained)
         => /\ tableName \notin DOMAIN tableRegistry
            /\ tableName \notin tables

\* C7: clients.total equals clients.connected + clients.disconnected after
\* every connect and disconnect.
C7_TotalIsConnectedPlusDisconnected ==
  clients.total = clients.connected + clients.disconnected

\* C7 witness: one persistent client has disconnected while another client
\* stays connected.
C7_Witness ==
  /\ lastEvent.kind = "disconnected"
  /\ clients = [connected |-> 1, disconnected |-> 1, maximum |-> 2, total |-> 2]

\* C8: clients.connected never becomes negative; a disconnect leaves
\* max(0, connected - 1).
C8_ConnectedClampedAtZero ==
  /\ clients.connected >= 0
  /\ lastEvent.kind = "disconnected" =>
       clients.connected = (IF before.connected - 1 > 0 THEN before.connected - 1 ELSE 0)

\* C8 witness: a disconnect was handled while no client was connected.
C8_Witness ==
  /\ lastEvent.kind = "disconnected"
  /\ before.connected = 0
  /\ clients.connected = 0

\* C9: retained.count never becomes negative, whatever the sequence of
\* retained-added and retained-removed events.
C9_RetainedCountNonNegative == retainedCount >= 0

CurrentSysSubscriptions(ss) ==
  {x \in (DOMAIN ss) \X SessionTopics : x[2] \in ss[x[1]].topics}

\* online clients that hold a $SYS subscription
SysHolders(ss) == {c \in DOMAIN ss : ss[c].online /\ ss[c].topics # {}}

\* C11: after every subscribe or unsubscribe event the publisher timer is
\* active exactly when at least one $SYS subscription currently exists.
C11_TimerActiveIffSysSubscribed ==
  lastEvent.kind \in {"subscribe", "unsubscribe"} =>
    /\ publishInterval <=> (CurrentSysSubscriptions(sessions) # {})
    /\ activeTimers = (IF CurrentSysSubscriptions(sessions) # {} THEN 1 ELSE 0)

\* C12: a disconnect that leaves no online client holding a $SYS
\* subscription leaves no publisher timer running, and a subscribe that
\* gives the first online holder leaves exactly one timer running.
C12_LastHolderDisconnectStopsTimer ==
  /\ (/\ lastEvent.kind = "disconnected"
      /\ SysHolders(before.sessions) # {}
      /\ SysHolders(sessions) = {})
     => (~publishInterval /\ activeTimers = 0)
  /\ (/\ lastEvent.kind = "subscribe"
      /\ SysHolders(before.sessions) = {}
      /\ SysHolders(sessions) # {})
     => (publishInterval /\ activeTimers = 1)

\* number of topics of an event that are not empty
NonEmptyCount(topics) == Cardinality({i \in 1..Len(topics) : topics[i] # <<>>})

\* C13: every event changes each aggregator counter by exactly its own
\* effect, whole and once, whatever events were handled before it and in
\* whatever order they were delivered: connect adds one to connected and
\* recomputes total and maximum, disconnect takes one from connected (not
\* below zero) and adds at most one to disconnected, subscribe adds one per
\* non-empty topic, unsubscribe takes one per topic, retained-added and
\* retained-removed add and take one; every other counter is left alone.
C13_CounterUpdatesAtomic ==
  LET b == before IN
  /\ lastEvent.kind = "connected" =>
        /\ clients.connected = b.clients.connected + 1
        /\ clients.disconnected = b.clients.disconnected
        /\ clients.total = clients.connected + clients.disconnected
        /\ clients.maximum = (IF clients.connected > b.clients.maximum
                              THEN clients.connected ELSE b.clients.maximum)
        /\ subscriptionsCount = b.count /\ retainedCount = b.retained
  /\ lastEvent.kind = "disconnected" =>
        /\ clients.connected = (IF b.clients.connected > 0
                                THEN b.clients.connected - 1 ELSE 0)
        /\ clients.disconnected - b.clients.disconnected \in {0, 1}
        /\ clients.total = clients.connected + clients.disconnected
        /\ clients.maximum = b.clients.maximum
        /\ subscriptionsCount = b.count /\ retainedCount = b.retained
  /\ lastEvent.kind = "disconnected without session" =>
        clients = b.clients /\ subscriptionsCount = b.count /\ retainedCount = b.retained
  /\ lastEvent.kind = "subscribe" =>
        /\ subscriptionsCount = b.count + NonEmptyCount(lastEvent.topics)
        /\ clients = b.clients /\ retainedCount = b.retained
  /\ lastEvent.kind = "unsubscribe" =>
        /\ subscriptionsCount = b.count - Len(lastEvent.topics)
        /\ clients = b.clients /\ retainedCount = b.retained
  /\ lastEvent.kind = "retained-added" =>
        /\ retainedCount = b.retained + 1
        /\ clients = b.clients /\ subscriptionsCount = b.count
  /\ lastEvent.kind = "retained-removed" =>
        /\ retainedCount = b.retained - 1
        /\ clients = b.clients /\ subscriptionsCount = b.count

\* C13 witness: a subscribe was handled after connects, a retained-added and
\* an unsubscribe had been handled, and its increment is in the counter.
C13_Witness ==
  /\ lastEvent.kind = "subscribe"
  /\ NonEmptyCount(lastEvent.topics) = 1
  /\ before.count = 0 - 1
  /\ subscriptionsCount = 0
  /\ clients.connected = 2
  /\ retainedCount = 1

\* the table whose registry entry the subscribe handler touches for a topic:
\* the mapped table of a concrete topic, the mapped table of the first
\* segment of a wildcard topic, and none (the empty name) otherwise
SubscribedTable(topic) ==
  IF topic = <<>> \/ IsSysTopic(topic) THEN <<>>
  ELSE IF IsWildcard(topic)
       THEN IF FirstSegment(topic) \in {<<>>, <<"#">>, <<"+">>} THEN <<>>
            ELSE getTableNameForTopic(FirstSegment(topic))
       ELSE getTableNameForTopic(topic)

\* number of topics of a subscribe event that touch a table's entry
EntryDelta(topics, tableName) ==
  Cardinality({i \in 1..Len(topics) : SubscribedTable(topics[i]) = tableName})

C15_PublishCreatesEntry ==
  lastEvent.kind \in {"publish", "publish retained"} =>
    LET topic == lastEvent.topics[1]
        tableName == getTableNameForTopic(topic)
    IN (~IsSysTopic(topic) /\ tableName \notin DOMAIN before.reg)
       => /\ tableName \in DOMAIN tableRegistry
          /\ tableRegistry[tableName] =
               [subscriptionCount |-> 0,
                hasRetained |-> (lastEvent.kind = "publish retained")]

\* number of live subscriptions to concrete topics that map to a table
LiveCount(ss, tableName) ==
  Cardinality({x \in (DOMAIN ss) \X LiveTopics :
                 /\ x[2] \in ss[x[1]].topics
                 /\ IsConcrete(x[2])
                 /\ getTableNameForTopic(x[2]) = tableName})

\* C16: after every subscribe and unsubscribe event, each registry entry's
\* subscriptionCount is the number of live subscriptions to concrete topics
\* that map to the entry's table.
C16_CountIsLiveSubscriptions ==
  \A tableName \in DOMAIN tableRegistry :
    tableRegistry[tableName].subscriptionCount = LiveCount(sessions, tableName)

\* a retained message is currently stored under a topic of the table
HasStoredRetained(tableName) ==
  \E topic \in retainedStore : getTableNameForTopic(topic) = tableName

\* C17: after every subscribe, unsubscribe, retained-added and
\* retained-removed event, each registry entry's hasRetained is true exactly
\* when a retained message is stored under a topic of the entry's table.
C17_HasRetainedIsAccurate ==
  lastEvent.kind \in {"subscribe", "unsubscribe", "retained-added", "retained-removed"} =>
    \A tableName \in DOMAIN tableRegistry :
      tableRegistry[tableName].hasRetained <=> HasStoredRetained(tableName)

\* the table's entry exists in a registry and is flagged as holding a
\* retained message
FlaggedRetained(reg, tableName) == tableName \in DOMAIN reg /\ reg[tableName].hasRetained

\* C18: a retained-added event adds one to retained.count when it takes the
\* table's hasRetained from false to true, and otherwise (the flag was true
\* already, or stays false) leaves retained.count as it was.
C18_NoDoubleCounting ==
  lastEvent.kind = "retained-added" =>
    LET tableName == getTableNameForTopic(lastEvent.topics[1])
    IN retainedCount =
         before.retained +
           (IF ~FlaggedRetained(before.reg, tableName) /\ FlaggedRetained(tableRegistry, tableName)
            THEN 1 ELSE 0)

\* C19: a subscribe or unsubscribe event whose topics are all $SYS topics
\* leaves the registry as it was, starts no table creation and leaves the
\* set of tables as it was.
C19_SysTopicsLeaveRegistry ==
  (/\ lastEvent.kind \in {"subscribe", "unsubscribe"}
   /\ \A i \in 1..Len(lastEvent.topics) :
        lastEvent.topics[i] # <<>> /\ StartsWith(lastEvent.topics[i], SYS_PREFIX))
  => /\ tableRegistry = before.reg
     /\ creating = before.creating
     /\ tables = before.tables

\* C19 witness: a $SYS/# unsubscribe was handled while the registry held an
\* entry and a table creation was in flight, and both are as before.
C19_Witness ==
  /\ lastEvent = [kind |-> "unsubscribe", topics |-> <<TopicSysAll>>]
  /\ TableOfConcrete \in DOMAIN tableRegistry
  /\ TableOfConcrete \in creating
  /\ tableRegistry = before.reg
  /\ subscriptionsCount = before.count - 1

\* the $SYS metrics table holds value, as a string, under the topic's row
Stored(topic, value) ==
  LET id == SubSeq(topic, 6, Len(topic))
  IN id \in DOMAIN sysStore /\ sysStore[id].value = StringOf(value)

\* C20: with the $SYS metrics table set, after every event each $SYS topic
\* whose in-memory value the event changed is stored with its new value.
C20_ChangedTopicsUpserted ==
  (sysMetricsTable /\ lastEvent.kind # "init") =>
    /\ clients.connected # before.clients.connected
         => Stored(TOPIC_CLIENTS_CONNECTED, clients.connected)
    /\ clients.disconnected # before.clients.disconnected
         => Stored(TOPIC_CLIENTS_DISCONNECTED, clients.disconnected)
    /\ clients.total # before.clients.total
         => Stored(TOPIC_CLIENTS_TOTAL, clients.total)
    /\ clients.maximum # before.clients.maximum
         => Stored(TOPIC_CLIENTS_MAXIMUM, clients.maximum)
    /\ subscriptionsCount # before.count
         => Stored(TOPIC_SUBSCRIPTIONS_COUNT, subscriptionsCount)
    /\ retainedCount # before.retained
         => Stored(TOPIC_RETAINED_COUNT, retainedCount)

\* the counters after the step taken last are the ones its aggregator method
\* computes from the counters the step started from
CountersApplied ==
  /\ lastEvent.kind = "connected" =>
        clients = onConnect(before.clients, EmptyMap, FALSE).clients
  /\ lastEvent.kind = "disconnected" =>
        \E persistent \in BOOLEAN :
          clients = onDisconnect(before.clients, persistent, EmptyMap, FALSE).clients
  /\ lastEvent.kind = "retained-added" => retainedCount = before.retained + 1
  /\ lastEvent.kind = "retained-removed" => retainedCount = before.retained - 1

\* C21: a failure of a write to the $SYS metrics table, whether thrown by
\* the put call or reported later by the storage engine, is caught: none
\* escapes uncaught, and the counters of the event that issued the write
\* are updated in full.
C21_WriteFailuresContained == uncaught = 0 /\ CountersApplied

\* C22: while the $SYS metrics table reference is unset, upsertSysMetric
\* issues no put and raises nothing, and every event still updates its
\* counters as it does with the table set.
C22_NoTableNoWrite ==
  ~sysMetricsTable =>
    /\ pendingWrites = <<>>
    /\ lastPuts.issued = <<>>
    /\ sysStore = EmptyMap
    /\ caught = 0
    /\ uncaught = 0
    /\ CountersApplied
    /\ lastEvent.kind = "connected" =>
          clients = onConnect(before.clients, EmptyMap, TRUE).clients

C22_Witness ==
  /\ ~sysMetricsTable
  /\ lastEvent.kind = "disconnected"
  /\ clients.disconnected = 1
  /\ clients.maximum = 2

\* C23: for each $SYS topic at most one put on the metrics table is in
\* flight at any time.
C23_OneWriteInFlightPerTopic ==
  \A i, j \in 1..Len(pendingWrites) :
    i # j => pendingWrites[i].topic # pendingWrites[j].topic

\* C24: right after a handler has upserted a metric (the put did not throw),
\* a read of that topic from the metrics table returns a row whose value is
\* the string form of the value just written.
C24_ReadAfterUpsert ==
  \A i \in 1..Len(lastPuts.issued) :
    LET row == lastPuts.issued[i]
    IN row.id \notin lastPuts.threw =>
         readSysMetric(sysStore, row.topic) = [found |-> TRUE, value |-> row.value]

\* C25: when create_table reports that the table already exists,
\* createTableForTopic treats it as success: it returns the table, throws
\* nothing, the table exists, and the registry entry the subscribe handler
\* made for it is left as it is.
C25_AlreadyExistsIsSuccess ==
  (lastEvent.kind = "create_table settled" /\ lastEvent.outcome = "already exists") =>
    /\ lastEvent.result = "table"
    /\ lastEvent.topics[1] \in tables
    /\ tableRegistry = before.reg
    /\ uncaught = 0

C25_Witness ==
  /\ lastEvent.kind = "create_table settled"
  /\ lastEvent.outcome = "already exists"
  /\ getTableNameForTopic(TopicConcrete) \in DOMAIN tableRegistry
  /\ tableRegistry[getTableNameForTopic(TopicConcrete)].subscriptionCount = 1

\* the step taken last delivered a malformed event: a disconnect without a
\* usable session, or a subscribe/unsubscribe whose entries all lack a topic
MalformedEvent ==
  \/ lastEvent.kind = "disconnected without session"
  \/ /\ lastEvent.kind \in {"subscribe", "unsubscribe"}
     /\ \A i \in 1..Len(lastEvent.topics) : lastEvent.topics[i] = TopicEmpty

\* C26: a malformed event (a disconnect with an absent or malformed session,
\* a subscribe/unsubscribe entry with a missing topic) is a no-op: it changes
\* no aggregator counter and no registry entry.
C26_MalformedEventIsNoOp ==
  MalformedEvent =>
    /\ clients = before.clients
    /\ subscriptionsCount = before.count
    /\ retainedCount = before.retained
    /\ tableRegistry = before.reg

\* the three windows of a load metric: field of metrics.load, length in
\* clock units, divisor in minutes
Windows ==
  {[field |-> "oneMin", ms |-> TIME_WINDOWS.ONE_MIN.ms,
    minutes |-> TIME_WINDOWS.ONE_MIN.minutes],
   [field |-> "fiveMin", ms |-> TIME_WINDOWS.FIVE_MIN.ms,
    minutes |-> TIME_WINDOWS.FIVE_MIN.minutes],
   [field |-> "fifteenMin", ms |-> TIME_WINDOWS.FIFTEEN_MIN.ms,
    minutes |-> TIME_WINDOWS.FIFTEEN_MIN.minutes]}

\* the samples of a metric inside a window at the time the averages of the
\* step taken last were computed
WindowSamples(metric, w) == SamplesAfter(loadSamples[metric], now - w.ms)

\* C28: when the recomputation of the load averages finds no sample inside a
\* window, the rate of that metric and window keeps its previous value.
C28_EmptyWindowKeepsRate ==
  lastEvent.kind = "updateSystemMetrics" =>
    \A metric \in LoadMetrics, w \in Windows :
      Len(WindowSamples(metric, w)) = 0 =>
        load[metric][w.field] = before.load[metric][w.field]

C30_SamplesWithinFifteenMinutes ==
  lastEvent.kind = "updateSystemMetrics" =>
    \A metric \in LoadMetrics :
      \A i \in 1..Len(loadSamples[metric]) :
        /\ loadSamples[metric][i].time > before.now - 15
        /\ loadSamples[metric][i].time <= before.now

C30_Witness ==
  /\ lastEvent.kind = "updateSystemMetrics"
  /\ before.now = 15
  /\ \A metric \in LoadMetrics :
       /\ Len(loadSamples[metric]) = 2
       /\ loadSamples[metric][1].time = 5

\* the counters and the registry the event handlers maintain are as the
\* module created them, and no load average has left 0
EventMetricsAtDefaults ==
  /\ clients = [connected |-> 0, disconnected |-> 0, maximum |-> 0, total |-> 0]
  /\ subscriptionsCount = 0
  /\ retainedCount = 0
  /\ tableRegistry = EmptyMap
  /\ \A metric \in LoadMetrics :
       load[metric] = [oneMin |-> ZeroRate, fiveMin |-> ZeroRate, fifteenMin |-> ZeroRate]

\* C27 as stated: if the broker's event interface is unavailable at setup,
\* setup returns without throwing and installs no handler, and all metrics
\* stay at their initial zero values.
C27_AllMetricsStayZero ==
  monitoring.server # "events" =>
    /\ monitoring.result = "skipped"
    /\ EventMetricsAtDefaults
    /\ heap = [current |-> 0, maximum |-> 0]

\* C27, amended: if the broker's event interface is unavailable at setup,
\* setup returns without throwing and installs no handler, and every
\* counter, registry entry and load average that the events drive stays at
\* its initial value; the heap figures and the uptime are sampled by the
\* interval all the same.
C27_EventMetricsStayZero ==
  monitoring.server # "events" =>
    /\ monitoring.result = "skipped"
    /\ EventMetricsAtDefaults

C27_Witness ==
  /\ monitoring.server = "null"
  /\ lastEvent.kind = "updateSystemMetrics"
  /\ Len(loadSamples["connections"]) = 2
  /\ heap.current = 1

\* C31: clients.maximum is non-decreasing across every sequence of connect
\* and disconnect events; a disconnect leaves it as it was.
C31_MaximumNonDecreasing ==
  /\ clients.maximum >= before.clients.maximum
  /\ lastEvent.kind = "disconnected" => clients.maximum = before.clients.maximum

\* C31 witness: a client disconnected below an earlier peak of two, and the
\* peak is still reported.
C31_Witness ==
  /\ lastEvent.kind = "disconnected"
  /\ before.clients.connected = 1
  /\ clients.connected = 0
  /\ clients.maximum = 2


\* the text before the first separator, lowercased, with every character
\* outside [a-z0-9_] replaced by '_'
IsCleanedPrefix(name, topic) ==
  \E k \in 1..Len(topic) :
    /\ topic[k] = "/"
    /\ \A j \in 1..(k - 1) : topic[j] # "/"
    /\ Len(name) = k - 1
    /\ \A j \in 1..(k - 1) :
         name[j] = (IF ToLowerChar(topic[j]) \in LowerLetters \cup Digits \cup {"_"}
                    THEN ToLowerChar(topic[j]) ELSE "_")

\* C32: the mapper returns the default table name for an empty topic, a
\* topic without separator and a topic starting with the separator; for
\* every other topic it returns the prefix followed by the cleaned text
\* before the first separator.
C32_MapperResult ==
  lastEvent.kind = "getTableNameForTopic" =>
    LET topic == lastEvent.topics[1]
        result == lastEvent.result
    IN IF topic = <<>> \/ ~Includes(topic, "/") \/ topic[1] = "/"
       THEN result = DEFAULT_TABLE
       ELSE /\ Len(result) > Len(TABLE_PREFIX)
            /\ SubSeq(result, 1, Len(TABLE_PREFIX)) = TABLE_PREFIX
            /\ IsCleanedPrefix(SubSeq(result, Len(TABLE_PREFIX) + 1, Len(result)), topic)

\* C32 witness: a topic ending with the separator whose first segment has
\* an upper-case letter and a character outside [a-z0-9_].
C32_Witness ==
  /\ lastEvent.kind = "getTableNameForTopic"
  /\ lastEvent.topics[1] = <<"B", "-", "/">>
  /\ lastEvent.result = TABLE_PREFIX \o <<"b", "_">>


\* subscriptions of the disconnected client that map to a table
DroppedFrom(tableName) ==
  Cardinality({topic \in before.sessions[lastEvent.client].topics :
                 getTableNameForTopic(topic) = tableName})

\* C33: after a client that holds subscriptions disconnects, its
\* subscriptions no longer count in subscriptions.count nor in any registry
\* entry's subscriptionCount.
C33_DisconnectDropsSubscriptions ==
  (lastEvent.kind = "disconnected" /\ lastEvent.client \in DOMAIN before.sessions) =>
    LET held == before.sessions[lastEvent.client].topics
    IN /\ subscriptionsCount = before.count - Cardinality(held)
       /\ \A tableName \in DOMAIN tableRegistry :
            tableName \in DOMAIN before.reg =>
              tableRegistry[tableName].subscriptionCount =
                before.reg[tableName].subscriptionCount - DroppedFrom(tableName)


\* C34: a subscribe event followed by an unsubscribe event for the same
\* topic, whether concrete, wildcard, $SYS-prefixed or empty, leaves
\* subscriptions.count and the registry exactly as they were before the
\* subscribe.
C34_UnsubscribeUndoesSubscribe ==
  lastEvent.kind = "subscribe then unsubscribe" =>
    /\ subscriptionsCount = before.count
    /\ tableRegistry = before.reg


\* subscription_count stored for a topic in mqtt_topics, 0 without a row
StoredCount(rows, topic) ==
  IF topic \in DOMAIN rows THEN rows[topic].subscription_count ELSE 0

\* C35: once the deferred updates of the subscribe and unsubscribe events of
\* a concrete topic have all completed, the stored subscription_count is the
\* number of subscribes minus the number of unsubscribes.
C35_StoredCountLosesNoUpdate ==
  tasks = <<>> => StoredCount(mqttTopics, TopicConcrete) = subscriptionsCount

\* C36: the put of writeMessageToTable leaves the topic's stored
\* subscription_count as it was just before the put.
C36_MessageWriteKeepsCount ==
  lastEvent.kind = "message put" =>
    StoredCount(mqttTopics, lastEvent.topics[1]) = StoredCount(before.rows, lastEvent.topics[1])


\* C37: clients.disconnected is the number of persistent sessions that are
\* not connected; a persistent client that reconnects is taken out of
\* clients.disconnected, and clients.total counts it once.
C37_DisconnectedIsOfflineSessions ==
  /\ clients.disconnected = Cardinality(Offline(sessions))
  /\ (lastEvent.kind = "connected" /\ lastEvent.client \in Offline(before.sessions)) =>
       /\ clients.disconnected = before.clients.disconnected - 1
       /\ clients.total = before.clients.total

\* C38: a session connected with clean = false is reported to onDisconnect
\* as persistent and adds one to clients.disconnected; a session connected
\* with clean = true adds nothing.
C38_SamePersistenceAtDisconnect ==
  lastEvent.kind = "disconnected" =>
    clients.disconnected =
      before.clients.disconnected +
        (IF before.sessions[lastEvent.client].clean THEN 0 ELSE 1)


\* C39: a registry entry is inserted only after the creation of its table
\* has succeeded or reported already-exists, so every entry's table exists;
\* when a creation fails, the registry holds no entry for that table.
C39_EntryOnlyAfterCreation ==
  /\ \A tableName \in DOMAIN tableRegistry : tableName \in tables
  /\ (lastEvent.kind = "create_table settled" /\ lastEvent.outcome = "failed") =>
       lastEvent.topics[1] \notin DOMAIN tableRegistry


\* C40: when updateRetainedStatus clears hasRetained on an entry whose
\* subscriptionCount is 0, the entry is removed: after the call the table
\* either has no entry or its flag is still set (the call was not a clear).
C40_RetainedClearRemovesIdleEntry ==
  lastEvent.kind = "updateRetainedStatus" =>
    LET tableName == lastEvent.topics[1]
    IN (/\ tableName \in DOMAIN before.reg
        /\ before.reg[tableName].hasRetained
        /\ before.reg[tableName].subscriptionCount = 0)
       => \/ tableName \notin DOMAIN tableRegistry
          \/ tableRegistry[tableName].hasRetained

====
